---- MODULE Spec2Model ----
(***************************************************************************)
(* State-machine model of the SignatureEscrow contract                     *)
(* (src/app/hooks/useSecureVehicleTrading.ts, lines 482-1046).             *)
(*                                                                         *)
(* Every external function of the contract is an operator that maps the    *)
(* contract state S and the call's arguments to a result                   *)
(*   [S |-> state after the call, reverted |-> BOOLEAN, msg |-> STRING]    *)
(* A reverted call returns the state it started from (EVM rollback) and    *)
(* the revert reason in msg.  A call that returns normally has             *)
(* reverted = FALSE; msg is "ok", or the reason passed to _cancelEscrow    *)
(* when the call ended in the expiry branch.                               *)
(***************************************************************************)
EXTENDS Integers, FiniteSets, Sequences, TLC

----------------------------------------------------------------------------
(* Bounds of the model *)

MaxEscrows == 1
MaxNonce == 2
MaxTime == 2

----------------------------------------------------------------------------
(* Addresses *)

ZERO == "0x0"
THIS == "escrow"
Users == {"u1", "u2", "u3"}
NFT == "nft"
DEFAULT_PAYMENT_TOKEN == "BCOP"
GARBAGE == "0xgarbage"

ContractOwner == "u3"

TokenIds == {1}
PaymentTokens == {DEFAULT_PAYMENT_TOKEN}
Holders == Users \cup {THIS}

EscrowIds == 1..MaxEscrows
Nonces == 0..MaxNonce

TransactionType == {"CompleteEscrow", "CancelEscrow"}

(* Outcomes of an ERC20 transfer / transferFrom call: it moves the amount  *)
(* and returns true, returns false without moving anything, or reverts.    *)
TokenResults == {"ok", "false", "revert"}

(* Input sets of createEscrow *)
NftContractInputs == {NFT}
PaymentTokenInputs == {ZERO}
PriceInputs == {1}
ArbiterInputs == {ZERO, "u3"}
ThresholdInputs == 0..3
ExpirationInputs == {0, 1}

----------------------------------------------------------------------------
VARIABLES escrows, escrowIdCounter, transactions, userNonces,
          nftOwner, balances, now, last

vars == <<escrows, escrowIdCounter, transactions, userNonces,
          nftOwner, balances, now, last>>

EmptyEscrow ==
  [seller |-> ZERO, nftContract |-> ZERO, tokenId |-> 0, paymentToken |-> ZERO,
   price |-> 0, buyer |-> ZERO, arbiter |-> ZERO, state |-> "Created",
   requiredSignatures |-> [requireBuyer |-> FALSE, requireSeller |-> FALSE,
                           requireArbiter |-> FALSE, threshold |-> 0],
   expirationTime |-> 0]

EmptyTransaction ==
  [escrowId |-> 0, txType |-> "CompleteEscrow", nonce |-> 0,
   approvals |-> {}, approvalCount |-> 0]

(* The typed-data hash of (escrowId, txType, nonce) under this contract's  *)
(* domain: collision free, so it is the triple itself.                     *)
_hashTypedDataV4ForTransaction(escrowId, txType, nonce) ==
  <<escrowId, txType, nonce>>

TxHashes == EscrowIds \X TransactionType \X Nonces

(* A signature is the signing key's owner and the digest it signed.        *)
Signatures == [by : Users, digest : TxHashes]

(* ECDSA.recover: the signing address when the digest is the one signed,   *)
(* otherwise an unrelated address.                                         *)
(* ECDSA.recover yielding the signing address whatever digest was signed *)
recover_AnyDigest(txHash, signature) ==
  signature.by

recover(txHash, signature) ==
  IF signature.digest = txHash THEN signature.by ELSE GARBAGE

(* The contract state as one record *)
Cur ==
  [escrows |-> escrows, escrowIdCounter |-> escrowIdCounter,
   transactions |-> transactions, userNonces |-> userNonces,
   nftOwner |-> nftOwner, balances |-> balances, now |-> now]

Revert(S, reason) == [S |-> S, reverted |-> TRUE, msg |-> reason]
Return(S, m) == [S |-> S, reverted |-> FALSE, msg |-> m]

----------------------------------------------------------------------------
(* External collaborators: the ERC721 registry and the ERC20 tokens *)

(* IERC721.transferFrom called by this contract: reverts unless `from'     *)
(* owns the token, the receiver is non-zero and the contract is the owner  *)
(* or approved by the owner.                                               *)
nftTransferFrom(S, from, to, tokenId, approved) ==
  IF S.nftOwner[tokenId] # from \/ to = ZERO \/ ~approved
  THEN [S |-> S, status |-> "revert"]
  ELSE [S |-> [S EXCEPT !.nftOwner[tokenId] = to], status |-> "true"]

(* IERC20.transfer / transferFrom: tokRes is what the token does.  A token *)
(* asked to move more than `from' holds cannot move it.                    *)
erc20Transfer(S, token, from, to, amount, tokRes) ==
  IF tokRes = "revert" THEN [S |-> S, status |-> "revert"]
  ELSE IF tokRes = "false" THEN [S |-> S, status |-> "false"]
  ELSE IF S.balances[token][from] < amount THEN [S |-> S, status |-> "revert"]
  ELSE [S |-> [S EXCEPT !.balances[token][from] = @ - amount,
                        !.balances[token][to] = @ + amount],
        status |-> "true"]

----------------------------------------------------------------------------
(* Internal functions *)

_completeEscrow(S, escrowId, tokRes) ==
  LET escrow == S.escrows[escrowId]
      n == nftTransferFrom(S, THIS, escrow.buyer, escrow.tokenId, TRUE)
  IN IF n.status = "revert" THEN Revert(S, "ERC721 transfer reverted")
     ELSE LET p == erc20Transfer(n.S, escrow.paymentToken, THIS,
                                 escrow.seller, escrow.price, tokRes)
          IN IF p.status = "revert" THEN Revert(S, "ERC20 transfer reverted")
             ELSE Return([p.S EXCEPT !.escrows[escrowId].state = "Completed"],
                         "ok")

_cancelEscrow(S, escrowId, reason, tokRes) ==
  LET escrow == S.escrows[escrowId]
      n == nftTransferFrom(S, THIS, escrow.seller, escrow.tokenId, TRUE)
  IN IF n.status = "revert" THEN Revert(S, "ERC721 transfer reverted")
     ELSE LET p == IF escrow.state = "BuyerDeposited"
                   THEN erc20Transfer(n.S, escrow.paymentToken, THIS,
                                      escrow.buyer, escrow.price, tokRes)
                   ELSE [S |-> n.S, status |-> "true"]
          IN IF p.status = "revert" THEN Revert(S, "ERC20 transfer reverted")
             ELSE Return([p.S EXCEPT !.escrows[escrowId].state = "Cancelled"],
                         reason)

----------------------------------------------------------------------------
(* External functions *)

(* createEscrow with the threshold guard missing its lower bound *)
createEscrow_NoLowerBound(S, sender, nftContract, tokenId, paymentToken, price, arbiter, requireBuyer, requireSeller, requireArbiter, threshold, expirationTime, approved) ==
  LET maxSigners == (IF requireBuyer THEN 1 ELSE 0)
                    + (IF requireSeller THEN 1 ELSE 0)
                    + (IF requireArbiter THEN 1 ELSE 0)
      escrowId == S.escrowIdCounter + 1
      token == IF paymentToken = ZERO THEN DEFAULT_PAYMENT_TOKEN
               ELSE paymentToken
      S1 == [S EXCEPT !.escrowIdCounter = escrowId,
                      !.escrows[escrowId] =
                        [seller |-> sender, nftContract |-> nftContract,
                         tokenId |-> tokenId, paymentToken |-> token,
                         price |-> price, buyer |-> ZERO, arbiter |-> arbiter,
                         state |-> "Created",
                         requiredSignatures |->
                           [requireBuyer |-> requireBuyer,
                            requireSeller |-> requireSeller,
                            requireArbiter |-> requireArbiter,
                            threshold |-> threshold],
                         expirationTime |-> expirationTime]]
  IN IF nftContract = ZERO THEN Revert(S, "Invalid NFT contract address")
     ELSE IF ~(price > 0) THEN Revert(S, "Price must be greater than zero")
     ELSE IF requireArbiter /\ arbiter = ZERO
       THEN Revert(S, "Arbiter required but not provided")
     ELSE IF ~(threshold <= maxSigners)
       THEN Revert(S, "Invalid threshold")
     ELSE IF S.nftOwner[tokenId] # sender
       THEN Revert(S, "Caller must own the NFT")
     ELSE LET n == nftTransferFrom(S1, sender, THIS, tokenId, approved)
          IN IF n.status = "revert" THEN Revert(S, "ERC721 transfer reverted")
             ELSE Return(n.S, "ok")

(* createEscrow taking the asset from whoever holds it, without the      *)
(* ownership guard                                                       *)
createEscrow_AnyCaller(S, sender, nftContract, tokenId, paymentToken, price, arbiter, requireBuyer, requireSeller, requireArbiter, threshold, expirationTime, approved) ==
  LET maxSigners == (IF requireBuyer THEN 1 ELSE 0)
                    + (IF requireSeller THEN 1 ELSE 0)
                    + (IF requireArbiter THEN 1 ELSE 0)
      escrowId == S.escrowIdCounter + 1
      token == IF paymentToken = ZERO THEN DEFAULT_PAYMENT_TOKEN
               ELSE paymentToken
      S1 == [S EXCEPT !.escrowIdCounter = escrowId,
                      !.escrows[escrowId] =
                        [seller |-> sender, nftContract |-> nftContract,
                         tokenId |-> tokenId, paymentToken |-> token,
                         price |-> price, buyer |-> ZERO, arbiter |-> arbiter,
                         state |-> "Created",
                         requiredSignatures |->
                           [requireBuyer |-> requireBuyer,
                            requireSeller |-> requireSeller,
                            requireArbiter |-> requireArbiter,
                            threshold |-> threshold],
                         expirationTime |-> expirationTime]]
  IN IF nftContract = ZERO THEN Revert(S, "Invalid NFT contract address")
     ELSE IF ~(price > 0) THEN Revert(S, "Price must be greater than zero")
     ELSE IF requireArbiter /\ arbiter = ZERO
       THEN Revert(S, "Arbiter required but not provided")
     ELSE IF ~(threshold > 0 /\ threshold <= maxSigners)
       THEN Revert(S, "Invalid threshold")
     ELSE IF FALSE
       THEN Revert(S, "Caller must own the NFT")
     ELSE LET n == nftTransferFrom(S1, S.nftOwner[tokenId], THIS, tokenId,
                                   approved)
          IN IF n.status = "revert" THEN Revert(S, "ERC721 transfer reverted")
             ELSE Return(n.S, "ok")

createEscrow(S, sender, nftContract, tokenId, paymentToken, price, arbiter, requireBuyer, requireSeller, requireArbiter, threshold, expirationTime, approved) ==
  LET maxSigners == (IF requireBuyer THEN 1 ELSE 0)
                    + (IF requireSeller THEN 1 ELSE 0)
                    + (IF requireArbiter THEN 1 ELSE 0)
      escrowId == S.escrowIdCounter + 1
      token == IF paymentToken = ZERO THEN DEFAULT_PAYMENT_TOKEN
               ELSE paymentToken
      S1 == [S EXCEPT !.escrowIdCounter = escrowId,
                      !.escrows[escrowId] =
                        [seller |-> sender, nftContract |-> nftContract,
                         tokenId |-> tokenId, paymentToken |-> token,
                         price |-> price, buyer |-> ZERO, arbiter |-> arbiter,
                         state |-> "Created",
                         requiredSignatures |->
                           [requireBuyer |-> requireBuyer,
                            requireSeller |-> requireSeller,
                            requireArbiter |-> requireArbiter,
                            threshold |-> threshold],
                         expirationTime |-> expirationTime]]
  IN IF nftContract = ZERO THEN Revert(S, "Invalid NFT contract address")
     ELSE IF ~(price > 0) THEN Revert(S, "Price must be greater than zero")
     ELSE IF requireArbiter /\ arbiter = ZERO
       THEN Revert(S, "Arbiter required but not provided")
     ELSE IF ~(threshold > 0 /\ threshold <= maxSigners)
       THEN Revert(S, "Invalid threshold")
     ELSE IF S.nftOwner[tokenId] # sender
       THEN Revert(S, "Caller must own the NFT")
     ELSE LET n == nftTransferFrom(S1, sender, THIS, tokenId, approved)
          IN IF n.status = "revert" THEN Revert(S, "ERC721 transfer reverted")
             ELSE Return(n.S, "ok")

(* Expired with the deadline one time unit late *)
Expired_OneLate(S, escrow) ==
  escrow.expirationTime > 0 /\ ~(S.now <= escrow.expirationTime + 1)

Expired(S, escrow) ==
  escrow.expirationTime > 0 /\ ~(S.now <= escrow.expirationTime)

(* assignAsBuyer without the guard on an already assigned buyer *)
assignAsBuyer_NoAssignedGuard(S, sender, escrowId) ==
  LET escrow == S.escrows[escrowId]
  IN IF escrow.seller = ZERO THEN Revert(S, "Escrow does not exist")
     ELSE IF escrow.state # "Created"
       THEN Revert(S, "Escrow not in Created state")
     ELSE IF escrow.seller = sender THEN Revert(S, "Seller cannot be buyer")
     ELSE IF FALSE THEN Revert(S, "Buyer already assigned")
     ELSE IF Expired(S, escrow) THEN Revert(S, "Escrow expired")
     ELSE Return([S EXCEPT !.escrows[escrowId].buyer = sender], "ok")

assignAsBuyer(S, sender, escrowId) ==
  LET escrow == S.escrows[escrowId]
  IN IF escrow.seller = ZERO THEN Revert(S, "Escrow does not exist")
     ELSE IF escrow.state # "Created"
       THEN Revert(S, "Escrow not in Created state")
     ELSE IF escrow.seller = sender THEN Revert(S, "Seller cannot be buyer")
     ELSE IF escrow.buyer # ZERO THEN Revert(S, "Buyer already assigned")
     ELSE IF Expired(S, escrow) THEN Revert(S, "Escrow expired")
     ELSE Return([S EXCEPT !.escrows[escrowId].buyer = sender], "ok")

assignArbiter(S, sender, escrowId, arbiter) ==
  LET escrow == S.escrows[escrowId]
  IN IF escrow.seller = ZERO THEN Revert(S, "Escrow does not exist")
     ELSE IF ~(escrow.state = "Created" \/ escrow.state = "BuyerDeposited")
       THEN Revert(S, "Escrow in wrong state")
     ELSE IF sender # escrow.seller
       THEN Revert(S, "Only seller can assign arbiter")
     ELSE IF arbiter = ZERO THEN Revert(S, "Invalid arbiter address")
     ELSE IF ~(arbiter # escrow.seller /\ arbiter # escrow.buyer)
       THEN Revert(S, "Arbiter cannot be buyer or seller")
     ELSE IF escrow.arbiter # ZERO THEN Revert(S, "Arbiter already assigned")
     ELSE IF Expired(S, escrow) THEN Revert(S, "Escrow expired")
     ELSE Return([S EXCEPT !.escrows[escrowId].arbiter = arbiter], "ok")

(* depositPayment without the check of transferFrom's returned bool *)
depositPayment_UncheckedPull(S, sender, escrowId, tokRes) ==
  LET escrow == S.escrows[escrowId]
  IN IF escrow.seller = ZERO THEN Revert(S, "Escrow does not exist")
     ELSE IF escrow.state # "Created"
       THEN Revert(S, "Escrow not in Created state")
     ELSE IF escrow.buyer # sender
       THEN Revert(S, "Only assigned buyer can deposit")
     ELSE IF Expired(S, escrow) THEN Revert(S, "Escrow expired")
     ELSE LET p == erc20Transfer(S, escrow.paymentToken, sender, THIS,
                                 escrow.price, tokRes)
          IN IF p.status = "revert" THEN Revert(S, "ERC20 transfer reverted")
             ELSE Return([p.S EXCEPT !.escrows[escrowId].state =
                            IF escrow.requiredSignatures.threshold = 0
                            THEN "ReadyForExecution" ELSE "BuyerDeposited"],
                         "ok")

depositPayment(S, sender, escrowId, tokRes) ==
  LET escrow == S.escrows[escrowId]
  IN IF escrow.seller = ZERO THEN Revert(S, "Escrow does not exist")
     ELSE IF escrow.state # "Created"
       THEN Revert(S, "Escrow not in Created state")
     ELSE IF escrow.buyer # sender
       THEN Revert(S, "Only assigned buyer can deposit")
     ELSE IF Expired(S, escrow) THEN Revert(S, "Escrow expired")
     ELSE LET p == erc20Transfer(S, escrow.paymentToken, sender, THIS,
                                 escrow.price, tokRes)
          IN IF p.status = "revert" THEN Revert(S, "ERC20 transfer reverted")
             ELSE IF p.status # "true" THEN Revert(S, "Token transfer failed")
             ELSE Return([p.S EXCEPT !.escrows[escrowId].state =
                            IF escrow.requiredSignatures.threshold = 0
                            THEN "ReadyForExecution" ELSE "BuyerDeposited"],
                         "ok")

(* isAuthorized without the role flags: every party may approve *)
isAuthorized_IgnoringFlags(escrow, signer) ==
  \/ signer = escrow.seller
  \/ signer = escrow.buyer
  \/ signer = escrow.arbiter

isAuthorized(escrow, signer) ==
  \/ escrow.requiredSignatures.requireSeller /\ signer = escrow.seller
  \/ escrow.requiredSignatures.requireBuyer /\ signer = escrow.buyer
  \/ escrow.requiredSignatures.requireArbiter /\ signer = escrow.arbiter

(* approveTransaction with the state guard rejecting only Created escrows *)
approveTransaction_OnlyCreatedRejected(S, sender, escrowId, txType, tokRes) ==
  LET escrow == S.escrows[escrowId]
      nonce == S.userNonces[sender]
      S1 == [S EXCEPT !.userNonces[sender] = @ + 1]
      txHash == _hashTypedDataV4ForTransaction(escrowId, txType, nonce)
      S2 == IF S1.transactions[txHash].nonce = 0
            THEN [S1 EXCEPT !.transactions[txHash] =
                    [@ EXCEPT !.escrowId = escrowId, !.txType = txType,
                              !.nonce = nonce, !.approvalCount = 0]]
            ELSE S1
      S3 == [S2 EXCEPT !.transactions[txHash] =
               [@ EXCEPT !.approvals = @ \cup {sender},
                         !.approvalCount = (@ + 1) % 256]]
  IN IF escrow.seller = ZERO THEN Revert(S, "Escrow does not exist")
     ELSE IF escrow.state = "Created"
       THEN Revert(S, "Escrow not in BuyerDeposited state")
     ELSE IF escrow.expirationTime > 0 /\ S.now > escrow.expirationTime
       THEN LET c == _cancelEscrow(S, escrowId, "Escrow expired", tokRes)
            IN IF c.reverted THEN Revert(S, c.msg) ELSE c
     ELSE IF ~isAuthorized(escrow, sender)
       THEN Revert(S, "Not authorized to approve")
     ELSE IF sender \in S2.transactions[txHash].approvals
       THEN Return(S2, "ok")
     ELSE IF S3.transactions[txHash].approvalCount
               >= escrow.requiredSignatures.threshold
       THEN LET x == IF txType = "CompleteEscrow"
                     THEN _completeEscrow(S3, escrowId, tokRes)
                     ELSE _cancelEscrow(S3, escrowId, "Cancelled by signers",
                                        tokRes)
            IN IF x.reverted THEN Revert(S, x.msg) ELSE Return(x.S, "ok")
     ELSE Return(S3, "ok")

(* approveTransaction executing one approval short of the threshold *)
approveTransaction_ThresholdOffByOne(S, sender, escrowId, txType, tokRes) ==
  LET escrow == S.escrows[escrowId]
      nonce == S.userNonces[sender]
      S1 == [S EXCEPT !.userNonces[sender] = @ + 1]
      txHash == _hashTypedDataV4ForTransaction(escrowId, txType, nonce)
      S2 == IF S1.transactions[txHash].nonce = 0
            THEN [S1 EXCEPT !.transactions[txHash] =
                    [@ EXCEPT !.escrowId = escrowId, !.txType = txType,
                              !.nonce = nonce, !.approvalCount = 0]]
            ELSE S1
      S3 == [S2 EXCEPT !.transactions[txHash] =
               [@ EXCEPT !.approvals = @ \cup {sender},
                         !.approvalCount = (@ + 1) % 256]]
  IN IF escrow.seller = ZERO THEN Revert(S, "Escrow does not exist")
     ELSE IF escrow.state # "BuyerDeposited"
       THEN Revert(S, "Escrow not in BuyerDeposited state")
     ELSE IF escrow.expirationTime > 0 /\ S.now > escrow.expirationTime
       THEN LET c == _cancelEscrow(S, escrowId, "Escrow expired", tokRes)
            IN IF c.reverted THEN Revert(S, c.msg) ELSE c
     ELSE IF ~isAuthorized(escrow, sender)
       THEN Revert(S, "Not authorized to approve")
     ELSE IF sender \in S2.transactions[txHash].approvals
       THEN Return(S2, "ok")
     ELSE IF S3.transactions[txHash].approvalCount + 1
               >= escrow.requiredSignatures.threshold
       THEN LET x == IF txType = "CompleteEscrow"
                     THEN _completeEscrow(S3, escrowId, tokRes)
                     ELSE _cancelEscrow(S3, escrowId, "Cancelled by signers",
                                        tokRes)
            IN IF x.reverted THEN Revert(S, x.msg) ELSE Return(x.S, "ok")
     ELSE Return(S3, "ok")

approveTransaction(S, sender, escrowId, txType, tokRes) ==
  LET escrow == S.escrows[escrowId]
      nonce == S.userNonces[sender]
      S1 == [S EXCEPT !.userNonces[sender] = @ + 1]
      txHash == _hashTypedDataV4ForTransaction(escrowId, txType, nonce)
      S2 == IF S1.transactions[txHash].nonce = 0
            THEN [S1 EXCEPT !.transactions[txHash] =
                    [@ EXCEPT !.escrowId = escrowId, !.txType = txType,
                              !.nonce = nonce, !.approvalCount = 0]]
            ELSE S1
      S3 == [S2 EXCEPT !.transactions[txHash] =
               [@ EXCEPT !.approvals = @ \cup {sender},
                         !.approvalCount = (@ + 1) % 256]]
  IN IF escrow.seller = ZERO THEN Revert(S, "Escrow does not exist")
     ELSE IF escrow.state # "BuyerDeposited"
       THEN Revert(S, "Escrow not in BuyerDeposited state")
     ELSE IF escrow.expirationTime > 0 /\ S.now > escrow.expirationTime
       THEN LET c == _cancelEscrow(S, escrowId, "Escrow expired", tokRes)
            IN IF c.reverted THEN Revert(S, c.msg) ELSE c
     ELSE IF ~isAuthorized(escrow, sender)
       THEN Revert(S, "Not authorized to approve")
     ELSE IF sender \in S2.transactions[txHash].approvals
       THEN Return(S2, "ok")
     ELSE IF S3.transactions[txHash].approvalCount
               >= escrow.requiredSignatures.threshold
       THEN LET x == IF txType = "CompleteEscrow"
                     THEN _completeEscrow(S3, escrowId, tokRes)
                     ELSE _cancelEscrow(S3, escrowId, "Cancelled by signers",
                                        tokRes)
            IN IF x.reverted THEN Revert(S, x.msg) ELSE Return(x.S, "ok")
     ELSE Return(S3, "ok")

(* approveTransactionWithSignature with the nonce guard accepting any     *)
(* nonce up to the stored one                                              *)
approveTransactionWithSignature_StaleNonceAccepted(S, escrowId, txType, signer, nonce, signature, tokRes) ==
  LET escrow == S.escrows[escrowId]
      txHash == _hashTypedDataV4ForTransaction(escrowId, txType, nonce)
      recoveredSigner == recover(txHash, signature)
      S1 == [S EXCEPT !.userNonces[signer] = @ + 1]
      S2 == IF S1.transactions[txHash].nonce = 0
            THEN [S1 EXCEPT !.transactions[txHash] =
                    [@ EXCEPT !.escrowId = escrowId, !.txType = txType,
                              !.nonce = nonce, !.approvalCount = 0]]
            ELSE S1
      S3 == [S2 EXCEPT !.transactions[txHash] =
               [@ EXCEPT !.approvals = @ \cup {signer},
                         !.approvalCount = (@ + 1) % 256]]
  IN IF escrow.seller = ZERO THEN Revert(S, "Escrow does not exist")
     ELSE IF escrow.state # "BuyerDeposited"
       THEN Revert(S, "Escrow not in BuyerDeposited state")
     ELSE IF escrow.expirationTime > 0 /\ S.now > escrow.expirationTime
       THEN LET c == _cancelEscrow(S, escrowId, "Escrow expired", tokRes)
            IN IF c.reverted THEN Revert(S, c.msg) ELSE c
     ELSE IF ~isAuthorized(escrow, signer)
       THEN Revert(S, "Signer not authorized")
     ELSE IF nonce > S.userNonces[signer] THEN Revert(S, "Invalid nonce")
     ELSE IF recoveredSigner # signer THEN Revert(S, "Invalid signature")
     ELSE IF signer \in S2.transactions[txHash].approvals
       THEN Return(S2, "ok")
     ELSE IF S3.transactions[txHash].approvalCount
               >= escrow.requiredSignatures.threshold
       THEN LET x == IF txType = "CompleteEscrow"
                     THEN _completeEscrow(S3, escrowId, tokRes)
                     ELSE _cancelEscrow(S3, escrowId, "Cancelled by signers",
                                        tokRes)
            IN IF x.reverted THEN Revert(S, x.msg) ELSE Return(x.S, "ok")
     ELSE Return(S3, "ok")

(* approveTransactionWithSignature executing only once the count exceeds *)
(* the threshold                                                          *)
approveTransactionWithSignature_ThresholdExceeded(S, escrowId, txType, signer, nonce, signature, tokRes) ==
  LET escrow == S.escrows[escrowId]
      txHash == _hashTypedDataV4ForTransaction(escrowId, txType, nonce)
      recoveredSigner == recover(txHash, signature)
      S1 == [S EXCEPT !.userNonces[signer] = @ + 1]
      S2 == IF S1.transactions[txHash].nonce = 0
            THEN [S1 EXCEPT !.transactions[txHash] =
                    [@ EXCEPT !.escrowId = escrowId, !.txType = txType,
                              !.nonce = nonce, !.approvalCount = 0]]
            ELSE S1
      S3 == [S2 EXCEPT !.transactions[txHash] =
               [@ EXCEPT !.approvals = @ \cup {signer},
                         !.approvalCount = (@ + 1) % 256]]
  IN IF escrow.seller = ZERO THEN Revert(S, "Escrow does not exist")
     ELSE IF escrow.state # "BuyerDeposited"
       THEN Revert(S, "Escrow not in BuyerDeposited state")
     ELSE IF escrow.expirationTime > 0 /\ S.now > escrow.expirationTime
       THEN LET c == _cancelEscrow(S, escrowId, "Escrow expired", tokRes)
            IN IF c.reverted THEN Revert(S, c.msg) ELSE c
     ELSE IF ~isAuthorized(escrow, signer)
       THEN Revert(S, "Signer not authorized")
     ELSE IF nonce # S.userNonces[signer] THEN Revert(S, "Invalid nonce")
     ELSE IF recoveredSigner # signer THEN Revert(S, "Invalid signature")
     ELSE IF signer \in S2.transactions[txHash].approvals
       THEN Return(S2, "ok")
     ELSE IF S3.transactions[txHash].approvalCount
               > escrow.requiredSignatures.threshold
       THEN LET x == IF txType = "CompleteEscrow"
                     THEN _completeEscrow(S3, escrowId, tokRes)
                     ELSE _cancelEscrow(S3, escrowId, "Cancelled by signers",
                                        tokRes)
            IN IF x.reverted THEN Revert(S, x.msg) ELSE Return(x.S, "ok")
     ELSE Return(S3, "ok")

approveTransactionWithSignature(S, escrowId, txType, signer, nonce, signature, tokRes) ==
  LET escrow == S.escrows[escrowId]
      txHash == _hashTypedDataV4ForTransaction(escrowId, txType, nonce)
      recoveredSigner == recover(txHash, signature)
      S1 == [S EXCEPT !.userNonces[signer] = @ + 1]
      S2 == IF S1.transactions[txHash].nonce = 0
            THEN [S1 EXCEPT !.transactions[txHash] =
                    [@ EXCEPT !.escrowId = escrowId, !.txType = txType,
                              !.nonce = nonce, !.approvalCount = 0]]
            ELSE S1
      S3 == [S2 EXCEPT !.transactions[txHash] =
               [@ EXCEPT !.approvals = @ \cup {signer},
                         !.approvalCount = (@ + 1) % 256]]
  IN IF escrow.seller = ZERO THEN Revert(S, "Escrow does not exist")
     ELSE IF escrow.state # "BuyerDeposited"
       THEN Revert(S, "Escrow not in BuyerDeposited state")
     ELSE IF escrow.expirationTime > 0 /\ S.now > escrow.expirationTime
       THEN LET c == _cancelEscrow(S, escrowId, "Escrow expired", tokRes)
            IN IF c.reverted THEN Revert(S, c.msg) ELSE c
     ELSE IF ~isAuthorized(escrow, signer)
       THEN Revert(S, "Signer not authorized")
     ELSE IF nonce # S.userNonces[signer] THEN Revert(S, "Invalid nonce")
     ELSE IF recoveredSigner # signer THEN Revert(S, "Invalid signature")
     ELSE IF signer \in S2.transactions[txHash].approvals
       THEN Return(S2, "ok")
     ELSE IF S3.transactions[txHash].approvalCount
               >= escrow.requiredSignatures.threshold
       THEN LET x == IF txType = "CompleteEscrow"
                     THEN _completeEscrow(S3, escrowId, tokRes)
                     ELSE _cancelEscrow(S3, escrowId, "Cancelled by signers",
                                        tokRes)
            IN IF x.reverted THEN Revert(S, x.msg) ELSE Return(x.S, "ok")
     ELSE Return(S3, "ok")

adminCancelEscrow(S, sender, escrowId, tokRes) ==
  LET escrow == S.escrows[escrowId]
  IN IF sender # ContractOwner THEN Revert(S, "OwnableUnauthorizedAccount")
     ELSE IF escrow.seller = ZERO THEN Revert(S, "Escrow does not exist")
     ELSE IF ~(escrow.state # "Completed" /\ escrow.state # "Cancelled")
       THEN Revert(S, "Escrow already completed or cancelled")
     ELSE LET c == _cancelEscrow(S, escrowId, "admin", tokRes)
          IN IF c.reverted THEN Revert(S, c.msg) ELSE c

----------------------------------------------------------------------------
(* The state machine *)

(* last: the most recent call that returned without reverting (a reverted *)
(* call leaves no trace), with the approval arguments it carried.         *)
NoCall == [op |-> "none", id |-> 0, msg |-> "", txType |-> "CompleteEscrow",
           signer |-> ZERO, nonce |-> 0]

Init ==
  /\ escrows = [i \in EscrowIds |-> EmptyEscrow]
  /\ escrowIdCounter = 0
  /\ transactions = [h \in TxHashes |-> EmptyTransaction]
  /\ userNonces = [u \in Users |-> 0]
  /\ nftOwner = [t \in TokenIds |-> "u1"]
  /\ balances = [k \in PaymentTokens |-> [h \in Holders |->
                                            IF h = THIS THEN 0 ELSE 1]]
  /\ now = 1
  /\ last = NoCall

(* The effect of a call with result r *)
Apply(r, op, id, txType, signer, nonce) ==
  /\ escrows' = r.S.escrows
  /\ escrowIdCounter' = r.S.escrowIdCounter
  /\ transactions' = r.S.transactions
  /\ userNonces' = r.S.userNonces
  /\ nftOwner' = r.S.nftOwner
  /\ balances' = r.S.balances
  /\ now' = now
  /\ last' = IF r.reverted THEN last
             ELSE [op |-> op, id |-> id, msg |-> r.msg, txType |-> txType,
                   signer |-> signer, nonce |-> nonce]

CreateEscrow ==
  /\ escrowIdCounter < MaxEscrows
  /\ \E sender \in Users, nftContract \in NftContractInputs,
        tokenId \in TokenIds, paymentToken \in PaymentTokenInputs,
        price \in PriceInputs, arbiter \in ArbiterInputs,
        requireBuyer \in BOOLEAN, requireSeller \in BOOLEAN,
        requireArbiter \in BOOLEAN, threshold \in ThresholdInputs,
        expirationTime \in ExpirationInputs, approved \in {TRUE} :
       Apply(createEscrow(Cur, sender, nftContract, tokenId, paymentToken,
                          price, arbiter, requireBuyer, requireSeller,
                          requireArbiter, threshold, expirationTime, approved),
             "createEscrow", escrowIdCounter + 1, "CompleteEscrow", sender, 0)

AssignAsBuyer ==
  /\ \E sender \in Users, escrowId \in EscrowIds :
       Apply(assignAsBuyer(Cur, sender, escrowId), "assignAsBuyer", escrowId,
             "CompleteEscrow", sender, 0)

AssignArbiter ==
  /\ \E sender \in Users, escrowId \in EscrowIds, arbiter \in ArbiterInputs :
       Apply(assignArbiter(Cur, sender, escrowId, arbiter),
             "assignArbiter", escrowId, "CompleteEscrow", sender, 0)

DepositPayment ==
  /\ \E sender \in Users, escrowId \in EscrowIds, tokRes \in TokenResults :
       Apply(depositPayment(Cur, sender, escrowId, tokRes),
             "depositPayment", escrowId, "CompleteEscrow", sender, 0)

ApproveTransaction ==
  /\ \E sender \in Users, escrowId \in EscrowIds, txType \in TransactionType,
        tokRes \in TokenResults :
       /\ userNonces[sender] < MaxNonce
       /\ Apply(approveTransaction(Cur, sender, escrowId, txType, tokRes),
                "approveTransaction", escrowId, txType, sender,
                userNonces[sender])

(* The (nonce, signature) pairs submitted: the signer's signature over the  *)
(* call's digest for every nonce (current, stale or future), another key's *)
(* signature over the digest at the current nonce, and the signer's        *)
(* signature over the other action at the current nonce.                   *)
OtherUser(u) == CHOOSE v \in Users : v # u
OtherType(t) == CHOOSE x \in TransactionType : x # t
SignedInputs(escrowId, txType, signer) ==
  {[nonce |-> n,
    signature |-> [by |-> signer,
                   digest |-> _hashTypedDataV4ForTransaction(escrowId, txType,
                                                             n)]] :
     n \in Nonces}
  \cup {[nonce |-> userNonces[signer],
         signature |-> [by |-> OtherUser(signer),
                        digest |-> _hashTypedDataV4ForTransaction(
                                     escrowId, txType, userNonces[signer])]],
        [nonce |-> userNonces[signer],
         signature |-> [by |-> signer,
                        digest |-> _hashTypedDataV4ForTransaction(
                                     escrowId, OtherType(txType),
                                     userNonces[signer])]]}

ApproveTransactionWithSignature ==
  \E escrowId \in EscrowIds, txType \in TransactionType, signer \in Users,
     tokRes \in TokenResults :
   \E in \in SignedInputs(escrowId, txType, signer) :
    /\ userNonces[signer] < MaxNonce
    /\ Apply(approveTransactionWithSignature(Cur, escrowId, txType, signer,
                                             in.nonce, in.signature, tokRes),
             "approveTransactionWithSignature", escrowId, txType, signer,
             in.nonce)

AdminCancelEscrow ==
  /\ \E sender \in Users, escrowId \in EscrowIds, tokRes \in TokenResults :
       Apply(adminCancelEscrow(Cur, sender, escrowId, tokRes),
             "adminCancelEscrow", escrowId, "CancelEscrow", sender, 0)

(* block.timestamp advances between calls *)
Tick ==
  /\ now < MaxTime
  /\ now' = now + 1
  /\ UNCHANGED <<escrows, escrowIdCounter, transactions, userNonces,
                 nftOwner, balances, last>>

Next ==
  \/ CreateEscrow
  \/ AssignAsBuyer
  \/ AssignArbiter
  \/ DepositPayment
  \/ ApproveTransaction
  \/ ApproveTransactionWithSignature
  \/ AdminCancelEscrow
  \/ Tick

Spec == Init /\ [][Next]_vars

TypeOK ==
  /\ escrowIdCounter \in 0..MaxEscrows
  /\ userNonces \in [Users -> Nonces]
  /\ now \in 1..MaxTime

----------------------------------------------------------------------------
(* Vocabulary of the properties *)

Exists(id) == escrows[id].seller # ZERO
Terminal(st) == st \in {"Completed", "Cancelled"}
IsExpired(id) ==
  escrows[id].expirationTime # 0 /\ now > escrows[id].expirationTime
EligibleCount(escrow) ==
  (IF escrow.requiredSignatures.requireBuyer THEN 1 ELSE 0)
  + (IF escrow.requiredSignatures.requireSeller THEN 1 ELSE 0)
  + (IF escrow.requiredSignatures.requireArbiter THEN 1 ELSE 0)
TerminalOf(txType) ==
  IF txType = "CompleteEscrow" THEN "Completed" ELSE "Cancelled"

(* The signers with an approval on record for (escrow, action), whatever   *)
(* nonce their record was filed under.                                     *)
ApproversOf(id, txType) ==
  UNION {transactions[<<id, txType, n>>].approvals : n \in Nonces}

ValidSignature(signer, id, txType, nonce) ==
  [by |-> signer,
   digest |-> _hashTypedDataV4ForTransaction(id, txType, nonce)]

----------------------------------------------------------------------------
(* C1: once `threshold' distinct eligible signers have approved the same   *)
(* action of an escrow, the escrow is in the matching terminal state,      *)
(* whatever the signers' nonces were.                                      *)
C1_ThresholdAccumulation ==
  \A id \in EscrowIds, txType \in TransactionType :
    (Exists(id) /\ Cardinality(ApproversOf(id, txType))
                     >= escrows[id].requiredSignatures.threshold)
      => escrows[id].state = TerminalOf(txType)

(* C2: a step that completes an escrow hands the asset to its buyer and    *)
(* exactly price to its seller; a step that cancels it hands the asset to  *)
(* its seller and price to its buyer iff payment had been deposited; no    *)
(* other address ever receives anything.                                   *)
C2_Step(id) ==
  LET e == escrows[id]
      tok == e.paymentToken
      gain(h) == balances'[tok][h] - balances[tok][h]
  IN (e.state # escrows'[id].state) =>
       /\ escrows'[id].state = "Completed" =>
            /\ nftOwner'[e.tokenId] = e.buyer
            /\ gain(e.seller) = e.price
            /\ \A h \in Users \ {e.seller} : gain(h) = 0
       /\ escrows'[id].state = "Cancelled" =>
            /\ nftOwner'[e.tokenId] = e.seller
            /\ \A h \in Users :
                 gain(h) = IF h = e.buyer /\ e.state = "BuyerDeposited"
                           THEN e.price ELSE 0
       /\ ~Terminal(escrows'[id].state) =>
            /\ nftOwner'[e.tokenId] = THIS
            /\ \A h \in Users : gain(h) <= 0

C2_ResolutionDestinations == [][\A id \in EscrowIds : C2_Step(id)]_vars

(* C3: an expired escrow in Created without a buyer is cancelled, with the *)
(* asset back at the seller and no payment moved, by the next call of      *)
(* assignAsBuyer, assignArbiter, depositPayment or an approval on it.      *)
C3_Settled(r, id) ==
  /\ ~r.reverted
  /\ r.S.escrows[id].state = "Cancelled"
  /\ r.S.nftOwner[escrows[id].tokenId] = escrows[id].seller
  /\ r.S.balances = balances

C3_LazyExpiryOfCreated ==
  \A id \in EscrowIds :
    (Exists(id) /\ escrows[id].state = "Created" /\ IsExpired(id)
       /\ escrows[id].buyer = ZERO)
      => \A sender \in Users \ {ContractOwner} :
           /\ C3_Settled(assignAsBuyer(Cur, sender, id), id)
           /\ \A a \in Users : C3_Settled(assignArbiter(Cur, sender, id, a), id)
           /\ \A tokRes \in TokenResults :
                C3_Settled(depositPayment(Cur, sender, id, tokRes), id)
           /\ \A txType \in TransactionType, tokRes \in TokenResults :
                /\ C3_Settled(approveTransaction(Cur, sender, id, txType,
                                                 tokRes), id)
                /\ C3_Settled(approveTransactionWithSignature(
                                Cur, id, txType, sender, userNonces[sender],
                                ValidSignature(sender, id, txType,
                                               userNonces[sender]),
                                tokRes), id)

(* C4: every approval call on a Completed or Cancelled escrow reverts with *)
(* the state error and changes nothing, and a terminal escrow's record     *)
(* never changes again, so nothing is released twice.                      *)
C4_Rejected(r) ==
  r.reverted /\ r.msg = "Escrow not in BuyerDeposited state" /\ r.S = Cur

C4_ApprovalsRejected ==
  \A id \in EscrowIds :
    (Exists(id) /\ Terminal(escrows[id].state)) =>
      \A txType \in TransactionType, tokRes \in TokenResults, u \in Users :
        /\ C4_Rejected(approveTransaction(Cur, u, id, txType, tokRes))
        /\ \A nonce \in Nonces, signature \in Signatures :
             C4_Rejected(approveTransactionWithSignature(
                           Cur, id, txType, u, nonce, signature, tokRes))

C4_Absorbing ==
  \A id \in EscrowIds :
    (Exists(id) /\ Terminal(escrows[id].state)) => escrows'[id] = escrows[id]

C4_NoDoubleRelease == []C4_ApprovalsRejected /\ [][C4_Absorbing]_vars

C4_Witness ==
  \E id \in EscrowIds :
    /\ escrows[id].state = "Completed"
    /\ last.op \in {"approveTransaction", "approveTransactionWithSignature"}
    /\ last.id = id
    /\ nftOwner[escrows[id].tokenId] = escrows[id].buyer

----------------------------------------------------------------------------
(* C5, as amended: an accepted signature-based approval raises the signer's *)
(* nonce by exactly one; the same submission made again is never accepted  *)
(* and records no approval and consumes no nonce: on an escrow that left   *)
(* BuyerDeposited it reverts with the state error, on a live one with the  *)
(* nonce error, and on one that has expired since it takes the expiry      *)
(* branch (cancels the escrow and returns, or reverts with the token); no  *)
(* nonce ever decreases.                                                   *)
C5_NotAccepted(r, id) ==
  /\ r.S.transactions = transactions
  /\ r.S.userNonces = userNonces
  /\ IF escrows[id].state # "BuyerDeposited"
     THEN r.reverted /\ r.msg = "Escrow not in BuyerDeposited state"
     ELSE IF IsExpired(id)
     THEN \/ ~r.reverted /\ r.msg = "Escrow expired"
                         /\ r.S.escrows[id].state = "Cancelled"
          \/ r.reverted /\ r.msg = "ERC20 transfer reverted"
     ELSE r.reverted /\ r.msg = "Invalid nonce"

C5_ReplayRejected ==
  /\ (last.op = "approveTransactionWithSignature" /\ last.msg = "ok") =>
       \A tokRes \in TokenResults :
         C5_NotAccepted(approveTransactionWithSignature(
                          Cur, last.id, last.txType, last.signer, last.nonce,
                          ValidSignature(last.signer, last.id, last.txType,
                                         last.nonce), tokRes), last.id)
  /\ \A id \in EscrowIds, txType \in TransactionType, signer \in Users,
        nonce \in Nonces, tokRes \in TokenResults :
       (Exists(id) /\ isAuthorized(escrows[id], signer)
          /\ nonce < userNonces[signer]) =>
         C5_NotAccepted(approveTransactionWithSignature(
                          Cur, id, txType, signer, nonce,
                          ValidSignature(signer, id, txType, nonce), tokRes),
                        id)

C5_NonceStep ==
  /\ \A u \in Users : userNonces'[u] >= userNonces[u]
  /\ (last' # last /\ last'.op = "approveTransactionWithSignature"
        /\ last'.msg = "ok") =>
       /\ last'.nonce = userNonces[last'.signer]
       /\ userNonces'[last'.signer] = userNonces[last'.signer] + 1

----------------------------------------------------------------------------
(* C6: a signature-based approval with a nonce other than the signer's     *)
(* stored one, a signature that does not recover to the claimed signer or  *)
(* a signer without an eligible role is rejected, and the rejected call    *)
(* leaves escrows, approval records, nonces and custody as they were.      *)
C6_Reasons == {"Invalid nonce", "Invalid signature", "Signer not authorized"}

C6_RejectionMutatesNothing ==
  \A id \in EscrowIds :
    (Exists(id) /\ escrows[id].state = "BuyerDeposited") =>
      \A txType \in TransactionType, signer \in Users, nonce \in Nonces,
         signature \in Signatures, tokRes \in TokenResults :
        LET r == approveTransactionWithSignature(Cur, id, txType, signer,
                                                 nonce, signature, tokRes)
            bad == \/ nonce # userNonces[signer]
                   \/ signature # ValidSignature(signer, id, txType, nonce)
                   \/ ~isAuthorized(escrows[id], signer)
        IN /\ (r.reverted /\ r.msg \in C6_Reasons) => r.S = Cur
           /\ (~IsExpired(id) /\ bad) =>
                (r.reverted /\ r.msg \in C6_Reasons /\ r.S = Cur)

(* a signer whose nonce has advanced, on a live escrow: the stale nonce    *)
(* (current - 1) is there to be rejected                                   *)
C6_Witness ==
  \E id \in EscrowIds, signer \in Users :
    /\ escrows[id].state = "BuyerDeposited"
    /\ ~IsExpired(id)
    /\ isAuthorized(escrows[id], signer)
    /\ userNonces[signer] >= 1
    /\ ApproversOf(id, "CompleteEscrow") # {}
    /\ approveTransactionWithSignature(
         Cur, id, "CompleteEscrow", signer, userNonces[signer] - 1,
         ValidSignature(signer, id, "CompleteEscrow", userNonces[signer] - 1),
         "ok").msg = "Invalid nonce"

----------------------------------------------------------------------------
(* C7: createEscrow succeeds only with 1 <= threshold <= number of roles   *)
(* marked required; with threshold 0 or above that number it reverts,      *)
(* allocating no id, storing no record and taking no asset; every stored   *)
(* escrow has its threshold within these bounds.                           *)
C7_CountOf(requireBuyer, requireSeller, requireArbiter) ==
  (IF requireBuyer THEN 1 ELSE 0) + (IF requireSeller THEN 1 ELSE 0)
  + (IF requireArbiter THEN 1 ELSE 0)

C7_ThresholdBounds ==
  /\ \A id \in EscrowIds :
       Exists(id) =>
         /\ 1 <= escrows[id].requiredSignatures.threshold
         /\ escrows[id].requiredSignatures.threshold
              <= EligibleCount(escrows[id])
  /\ escrowIdCounter < MaxEscrows =>
       \A sender \in Users, tokenId \in TokenIds, nftContract \in {ZERO, NFT},
          price \in {0, 1}, arbiter \in ArbiterInputs,
          requireBuyer \in BOOLEAN, requireSeller \in BOOLEAN,
          requireArbiter \in BOOLEAN, threshold \in 0..4,
          approved \in BOOLEAN :
         LET r == createEscrow(Cur, sender, nftContract, tokenId, ZERO, price,
                               arbiter, requireBuyer, requireSeller,
                               requireArbiter, threshold, 0, approved)
             k == C7_CountOf(requireBuyer, requireSeller, requireArbiter)
         IN /\ ~r.reverted => (1 <= threshold /\ threshold <= k)
            /\ ~(1 <= threshold /\ threshold <= k) =>
                 /\ r.reverted
                 /\ r.S.escrowIdCounter = escrowIdCounter
                 /\ r.S.escrows = escrows
                 /\ r.S.nftOwner = nftOwner

C7_Witness ==
  \E id \in EscrowIds :
    /\ last.op = "createEscrow"
    /\ last.id = id
    /\ escrows[id].requiredSignatures.threshold = 3
    /\ nftOwner[escrows[id].tokenId] = THIS

----------------------------------------------------------------------------
(* C8, as amended: seller, asset reference, payment token, price, required *)
(* signatures and expiration never change after creation, and buyer and    *)
(* arbiter never change once non-null; every assignAsBuyer call on an      *)
(* escrow that has a buyer reverts and leaves the buyer unchanged, with    *)
(* 'Buyer already assigned' when the escrow is still Created and the       *)
(* caller is not the seller, and otherwise with the state error or         *)
(* 'Seller cannot be buyer', which are checked first.                      *)
C8_FieldsKept ==
  \A id \in EscrowIds :
    Exists(id) =>
      LET e == escrows[id]
          f == escrows'[id]
      IN /\ f.seller = e.seller
         /\ f.nftContract = e.nftContract
         /\ f.tokenId = e.tokenId
         /\ f.paymentToken = e.paymentToken
         /\ f.price = e.price
         /\ f.requiredSignatures = e.requiredSignatures
         /\ f.expirationTime = e.expirationTime
         /\ e.buyer # ZERO => f.buyer = e.buyer
         /\ e.arbiter # ZERO => f.arbiter = e.arbiter

C8_SecondAssignRejected ==
  \A id \in EscrowIds, sender \in Users :
    (Exists(id) /\ escrows[id].buyer # ZERO) =>
      LET r == assignAsBuyer(Cur, sender, id)
      IN /\ r.reverted
         /\ r.S = Cur
         /\ r.msg = IF escrows[id].state # "Created"
                    THEN "Escrow not in Created state"
                    ELSE IF sender = escrows[id].seller
                    THEN "Seller cannot be buyer"
                    ELSE "Buyer already assigned"

C8_Immutability == []C8_SecondAssignRejected /\ [][C8_FieldsKept]_vars

(* C8 as stated: every assignAsBuyer call after the first successful one   *)
(* fails with 'Buyer already assigned'.                                    *)
C8_AlwaysAlreadyAssigned ==
  \A id \in EscrowIds, sender \in Users :
    (Exists(id) /\ escrows[id].buyer # ZERO) =>
      LET r == assignAsBuyer(Cur, sender, id)
      IN r.reverted /\ r.msg = "Buyer already assigned"

C8_Witness ==
  \E id \in EscrowIds :
    /\ last.op = "assignAsBuyer"
    /\ last.id = id
    /\ escrows[id].buyer = last.signer
    /\ escrows[id].state = "Created"
    /\ \E u \in Users \ {escrows[id].seller, escrows[id].buyer} :
         assignAsBuyer(Cur, u, id).msg = "Buyer already assigned"

----------------------------------------------------------------------------
(* C9: a second approval of the same (escrow, action) by a signer who      *)
(* already has one on record returns without error and is a no-op: no      *)
(* approval record, and no escrow, changes.                                *)
C9_SecondApprovalIsNoOp ==
  \A id \in EscrowIds, txType \in TransactionType, signer \in Users :
    (Exists(id) /\ escrows[id].state = "BuyerDeposited" /\ ~IsExpired(id)
       /\ signer \in ApproversOf(id, txType)) =>
      \A tokRes \in TokenResults :
        LET r == approveTransaction(Cur, signer, id, txType, tokRes)
            q == approveTransactionWithSignature(
                   Cur, id, txType, signer, userNonces[signer],
                   ValidSignature(signer, id, txType, userNonces[signer]),
                   tokRes)
        IN /\ ~r.reverted
           /\ r.S.transactions = transactions
           /\ r.S.escrows = escrows
           /\ ~q.reverted
           /\ q.S.transactions = transactions
           /\ q.S.escrows = escrows

----------------------------------------------------------------------------
(* C10: a signer's nonce changes only in a step in which                   *)
(* approveTransactionWithSignature accepted an approval naming that        *)
(* signer, and then by exactly one; approveTransaction and every other     *)
(* operation leave all nonces as they were.                                *)
C10_NonceFrame ==
  \A u \in Users :
    userNonces'[u] # userNonces[u] =>
      /\ last'.op = "approveTransactionWithSignature"
      /\ last'.signer = u
      /\ userNonces'[u] = userNonces[u] + 1

C10_DirectApprovalKeepsNonces == [][C10_NonceFrame]_vars

----------------------------------------------------------------------------
(* C11: every state change of an escrow is Created -> BuyerDeposited,      *)
(* BuyerDeposited -> Completed, Created -> Cancelled or                    *)
(* BuyerDeposited -> Cancelled; Completed and Cancelled are absorbing, so  *)
(* no state is entered twice; and no escrow is ever ReadyForExecution.     *)
C11_Edges ==
  {<<"Created", "BuyerDeposited">>, <<"BuyerDeposited", "Completed">>,
   <<"Created", "Cancelled">>, <<"BuyerDeposited", "Cancelled">>}

C11_EdgeStep ==
  \A id \in EscrowIds :
    Exists(id) =>
      \/ escrows'[id].state = escrows[id].state
      \/ <<escrows[id].state, escrows'[id].state>> \in C11_Edges

C11_NeverReady ==
  \A id \in EscrowIds :
    /\ escrows[id].state # "ReadyForExecution"
    /\ \A sender \in Users, tokRes \in TokenResults :
         depositPayment(Cur, sender, id, tokRes).S.escrows[id].state
           # "ReadyForExecution"

C11_LifecycleEdges == []C11_NeverReady /\ [][C11_EdgeStep]_vars

(* the edge Created -> Cancelled has been taken: cancelled by the owner    *)
(* before any buyer was assigned                                           *)
C11_Witness ==
  \E id \in EscrowIds :
    /\ last.op = "adminCancelEscrow"
    /\ last.id = id
    /\ escrows[id].state = "Cancelled"
    /\ escrows[id].buyer = ZERO
    /\ nftOwner[escrows[id].tokenId] = escrows[id].seller

----------------------------------------------------------------------------
(* C12: in every escrow a non-null buyer differs from the seller and a     *)
(* non-null arbiter differs from the seller and from the buyer, whether    *)
(* the arbiter came from createEscrow or from assignArbiter and whichever  *)
(* of buyer and arbiter was set first.                                     *)
C12_Distinct(e) ==
  /\ e.buyer # ZERO => e.buyer # e.seller
  /\ e.arbiter # ZERO => (e.arbiter # e.seller /\ e.arbiter # e.buyer)

C12_PartyDistinctness ==
  /\ \A id \in EscrowIds : Exists(id) => C12_Distinct(escrows[id])
  /\ escrowIdCounter < MaxEscrows =>
       \A sender \in Users, tokenId \in TokenIds, arbiter \in Users :
         LET r == createEscrow(Cur, sender, NFT, tokenId, ZERO, 1, arbiter,
                               TRUE, TRUE, TRUE, 2, 0, TRUE)
         IN ~r.reverted => C12_Distinct(r.S.escrows[escrowIdCounter + 1])

----------------------------------------------------------------------------
(* C13: the contract holds an escrow's asset iff the escrow is Created or  *)
(* BuyerDeposited, and it holds the escrow's payment of price units iff    *)
(* the escrow is BuyerDeposited: what the contract holds of a payment      *)
(* token is the sum of the prices of the BuyerDeposited escrows.           *)
RECURSIVE C13_SumPrices(_)
C13_SumPrices(ids) ==
  IF ids = {} THEN 0
  ELSE LET id == CHOOSE i \in ids : TRUE
       IN escrows[id].price + C13_SumPrices(ids \ {id})

C13_Deposited(tok) ==
  {id \in EscrowIds : /\ Exists(id)
                      /\ escrows[id].paymentToken = tok
                      /\ escrows[id].state = "BuyerDeposited"}

C13_AssetHeldFor(id) ==
  /\ nftOwner[escrows[id].tokenId] = THIS
  /\ \A other \in EscrowIds \ {id} :
       ~(/\ Exists(other)
         /\ escrows[other].tokenId = escrows[id].tokenId
         /\ ~Terminal(escrows[other].state))

C13_Custody ==
  /\ \A id \in EscrowIds :
       Exists(id) =>
         (C13_AssetHeldFor(id) <=> ~Terminal(escrows[id].state))
  /\ \A tok \in PaymentTokens :
       balances[tok][THIS] = C13_SumPrices(C13_Deposited(tok))

----------------------------------------------------------------------------
(* C14: a resolution whose asset release or payment payout fails, a token  *)
(* transfer that returns false included, is aborted as a whole: escrow     *)
(* records, asset and payment stay as they were and the escrow is still    *)
(* BuyerDeposited; and no escrow is Completed or Cancelled while the       *)
(* contract still holds its asset or its deposited payment.                *)
C14_Aborted(r) ==
  /\ r.S.escrows = escrows
  /\ r.S.nftOwner = nftOwner
  /\ r.S.balances = balances

C14_NothingLeftBehind(S, id) ==
  Terminal(S.escrows[id].state) =>
    /\ S.nftOwner[S.escrows[id].tokenId] # THIS
    /\ S.balances[escrows[id].paymentToken][THIS]
         = balances[escrows[id].paymentToken][THIS] - escrows[id].price

C14_AtomicResolution ==
  \A id \in EscrowIds :
    (Exists(id) /\ escrows[id].state = "BuyerDeposited") =>
      \A tokRes \in TokenResults, sender \in Users, txType \in TransactionType :
        LET a == approveTransaction(Cur, sender, id, txType, tokRes)
            g == approveTransactionWithSignature(
                   Cur, id, txType, sender, userNonces[sender],
                   ValidSignature(sender, id, txType, userNonces[sender]),
                   tokRes)
            c == adminCancelEscrow(Cur, sender, id, tokRes)
        IN /\ tokRes # "ok" =>
                (C14_Aborted(a) /\ C14_Aborted(g) /\ C14_Aborted(c))
           /\ C14_NothingLeftBehind(a.S, id)
           /\ C14_NothingLeftBehind(g.S, id)
           /\ C14_NothingLeftBehind(c.S, id)

----------------------------------------------------------------------------
(* C15: depositPayment returns only when the escrow is Created, the caller *)
(* is its assigned buyer and it has not expired, and then exactly price    *)
(* has moved from the buyer to the contract; when the pull fails (the      *)
(* token reverts or returns false) the call reverts and changes nothing,   *)
(* so the state stays Created and no payment is held; the contract's       *)
(* balance grows only in a depositPayment step, by exactly price, out of   *)
(* state Created, hence at most once per escrow.                           *)
C15_DepositGuard ==
  \A id \in EscrowIds, sender \in Users, tokRes \in TokenResults :
    LET r == depositPayment(Cur, sender, id, tokRes)
        e == escrows[id]
        tok == e.paymentToken
    IN /\ r.reverted => r.S = Cur
       /\ tokRes # "ok" => r.reverted
       /\ ~r.reverted =>
            /\ Exists(id)
            /\ e.state = "Created"
            /\ sender = e.buyer
            /\ ~IsExpired(id)
            /\ r.S.escrows[id].state = "BuyerDeposited"
            /\ r.S.balances[tok][THIS] = balances[tok][THIS] + e.price
            /\ r.S.balances[tok][sender] = balances[tok][sender] - e.price
            /\ \A h \in Holders \ {THIS, sender} :
                 r.S.balances[tok][h] = balances[tok][h]

C15_PullStep ==
  \A tok \in PaymentTokens :
    balances'[tok][THIS] > balances[tok][THIS] =>
      /\ last'.op = "depositPayment"
      /\ escrows[last'.id].state = "Created"
      /\ escrows'[last'.id].state = "BuyerDeposited"
      /\ escrows[last'.id].paymentToken = tok
      /\ balances'[tok][THIS] = balances[tok][THIS] + escrows[last'.id].price

C15_DepositFailureLeavesNoTrace == []C15_DepositGuard /\ [][C15_PullStep]_vars

(* the payment has been pulled: price is held, the buyer has paid it, and *)
(* a further depositPayment by the buyer is refused                        *)
C15_Witness ==
  \E id \in EscrowIds :
    /\ last.op = "depositPayment"
    /\ last.id = id
    /\ escrows[id].state = "BuyerDeposited"
    /\ balances[escrows[id].paymentToken][THIS] = escrows[id].price
    /\ balances[escrows[id].paymentToken][escrows[id].buyer] = 0
    /\ depositPayment(Cur, escrows[id].buyer, id, "ok").reverted

----------------------------------------------------------------------------
(* C16: any operation, by any caller, on a Created or BuyerDeposited       *)
(* escrow whose expiration has passed leaves the escrow Cancelled with the *)
(* asset back at the seller and the payment, if it was held, back at the   *)
(* buyer; the expiry check comes before the state check and before the     *)
(* eligibility check.                                                      *)
C16_Healed(r, id) ==
  LET e == escrows[id]
      tok == e.paymentToken
  IN /\ r.S.escrows[id].state = "Cancelled"
     /\ r.S.nftOwner[e.tokenId] = e.seller
     /\ r.S.balances[tok][THIS]
          = balances[tok][THIS]
            - (IF e.state = "BuyerDeposited" THEN e.price ELSE 0)

C16_SelfHealingExpiry ==
  \A id \in EscrowIds :
    (Exists(id) /\ ~Terminal(escrows[id].state) /\ IsExpired(id)) =>
      \A sender \in Users :
        /\ C16_Healed(assignAsBuyer(Cur, sender, id), id)
        /\ \A a \in Users : C16_Healed(assignArbiter(Cur, sender, id, a), id)
        /\ C16_Healed(depositPayment(Cur, sender, id, "ok"), id)
        /\ \A txType \in TransactionType :
             /\ C16_Healed(approveTransaction(Cur, sender, id, txType, "ok"),
                           id)
             /\ C16_Healed(approveTransactionWithSignature(
                             Cur, id, txType, sender, userNonces[sender],
                             ValidSignature(sender, id, txType,
                                            userNonces[sender]), "ok"), id)

----------------------------------------------------------------------------
(* C17: the approval records of an (escrow, action) change only in an      *)
(* approval step naming that action; an escrow resolved by an approval for *)
(* an action is in that action's terminal state, that action has at least  *)
(* threshold approvers and the other action had not reached the threshold  *)
(* before (the first action to reach it is the one executed); on a         *)
(* terminal escrow approvals for either action are rejected by the state   *)
(* guard.                                                                  *)
C17_RecordsOf(T, id, txType) == [n \in Nonces |-> T[<<id, txType, n>>]]

C17_IndependentStep ==
  \A id \in EscrowIds, txType \in TransactionType :
    C17_RecordsOf(transactions', id, txType)
        # C17_RecordsOf(transactions, id, txType) =>
      /\ last'.op \in {"approveTransaction", "approveTransactionWithSignature"}
      /\ last'.id = id
      /\ last'.txType = txType

C17_ResolvedByApproval(id) ==
  /\ last.op \in {"approveTransaction", "approveTransactionWithSignature"}
  /\ last.msg = "ok"
  /\ last.id = id
  /\ Terminal(escrows[id].state)

C17_OwnCountDecides ==
  \A id \in EscrowIds :
    C17_ResolvedByApproval(id) =>
      /\ escrows[id].state = TerminalOf(last.txType)
      /\ Cardinality(ApproversOf(id, last.txType))
           >= escrows[id].requiredSignatures.threshold

C17_FirstToThreshold ==
  \A id \in EscrowIds :
    C17_ResolvedByApproval(id) =>
      Cardinality(ApproversOf(id, OtherType(last.txType)))
        < escrows[id].requiredSignatures.threshold

C17_OtherActionRejected ==
  \A id \in EscrowIds :
    C17_ResolvedByApproval(id) =>
      \A u \in Users, tokRes \in TokenResults :
        LET r == approveTransaction(Cur, u, id, OtherType(last.txType), tokRes)
        IN r.reverted /\ r.msg = "Escrow not in BuyerDeposited state"

C17_IndependentTracking ==
  /\ [](C17_OwnCountDecides /\ C17_FirstToThreshold /\ C17_OtherActionRejected)
  /\ [][C17_IndependentStep]_vars

(* C17 without the first-to-threshold conjunct: the tracking of the two   *)
(* actions in separate records                                             *)
C17_IndependentPart ==
  /\ [](C17_OwnCountDecides /\ C17_OtherActionRejected)
  /\ [][C17_IndependentStep]_vars

----------------------------------------------------------------------------
(* C18: on a BuyerDeposited escrow that has not expired, an approval,      *)
(* direct or by signature, is accepted only from the seller with           *)
(* requireSeller set, the buyer with requireBuyer set or the arbiter with  *)
(* requireArbiter set; from any other address, a party whose own flag is   *)
(* not set included, the call reverts and leaves escrows, approval         *)
(* records, nonces and custody as they were.                               *)
C18_Eligible(e, signer) ==
  \/ signer = e.seller /\ e.requiredSignatures.requireSeller
  \/ signer = e.buyer /\ e.requiredSignatures.requireBuyer
  \/ signer = e.arbiter /\ e.requiredSignatures.requireArbiter

C18_Refused(r) == r.reverted /\ r.S = Cur

C18_OnlyEligibleApprove ==
  \A id \in EscrowIds :
    (Exists(id) /\ escrows[id].state = "BuyerDeposited" /\ ~IsExpired(id)) =>
      \A signer \in Users, txType \in TransactionType,
         tokRes \in TokenResults :
        LET d == approveTransaction(Cur, signer, id, txType, tokRes)
        IN /\ ~d.reverted => C18_Eligible(escrows[id], signer)
           /\ ~C18_Eligible(escrows[id], signer) =>
                (C18_Refused(d) /\ d.msg = "Not authorized to approve")
           /\ \A nonce \in Nonces, by \in Users :
                LET g == approveTransactionWithSignature(
                           Cur, id, txType, signer, nonce,
                           ValidSignature(by, id, txType, nonce), tokRes)
                IN /\ ~g.reverted => C18_Eligible(escrows[id], signer)
                   /\ ~C18_Eligible(escrows[id], signer) =>
                        (C18_Refused(g) /\ g.msg = "Signer not authorized")

(* an eligible signer's approval is on record while the seller, whose flag *)
(* is not set, is refused                                                  *)
C18_Witness ==
  \E id \in EscrowIds :
    /\ escrows[id].state = "BuyerDeposited"
    /\ ~IsExpired(id)
    /\ ~escrows[id].requiredSignatures.requireSeller
    /\ last.op \in {"approveTransaction", "approveTransactionWithSignature"}
    /\ last.msg = "ok"
    /\ last.signer \in ApproversOf(id, last.txType)
    /\ approveTransaction(Cur, escrows[id].seller, id, "CompleteEscrow",
                          "ok").msg = "Not authorized to approve"

----------------------------------------------------------------------------
(* C19: adminCancelEscrow returns only when the caller is the contract     *)
(* owner and the escrow exists and is Created or BuyerDeposited; the       *)
(* escrow is then Cancelled, the asset is back at the seller and price is  *)
(* back at the buyer iff payment was held; called by anyone else, or on a  *)
(* Completed or Cancelled escrow, it reverts and changes nothing.          *)
C19_AdminCancel ==
  \A id \in EscrowIds, sender \in Users, tokRes \in TokenResults :
    LET r == adminCancelEscrow(Cur, sender, id, tokRes)
        e == escrows[id]
        tok == e.paymentToken
    IN /\ r.reverted => r.S = Cur
       /\ (sender # ContractOwner \/ ~Exists(id) \/ Terminal(e.state)) =>
            r.reverted
       /\ ~r.reverted =>
            /\ sender = ContractOwner
            /\ Exists(id)
            /\ e.state \in {"Created", "BuyerDeposited"}
            /\ r.S.escrows[id] = [e EXCEPT !.state = "Cancelled"]
            /\ r.S.nftOwner[e.tokenId] = e.seller
            /\ \A h \in Holders :
                 r.S.balances[tok][h] - balances[tok][h] =
                   IF e.state = "BuyerDeposited"
                   THEN (IF h = e.buyer THEN e.price
                         ELSE IF h = THIS THEN 0 - e.price ELSE 0)
                   ELSE 0

----------------------------------------------------------------------------
(* C20: from any state, approveTransaction called by a signer and          *)
(* approveTransactionWithSignature carrying that signer's valid signature  *)
(* over the signer's current nonce either both revert or both return, and  *)
(* leave the same escrows (state, threshold attainment), the same approval *)
(* records and counts and the same custody of asset and payment.           *)
C20_SameEffect ==
  \A id \in EscrowIds, signer \in Users, txType \in TransactionType,
     tokRes \in TokenResults :
    LET d == approveTransaction(Cur, signer, id, txType, tokRes)
        g == approveTransactionWithSignature(
               Cur, id, txType, signer, userNonces[signer],
               ValidSignature(signer, id, txType, userNonces[signer]), tokRes)
    IN /\ d.reverted = g.reverted
       /\ d.S.escrows = g.S.escrows
       /\ d.S.transactions = g.S.transactions
       /\ d.S.nftOwner = g.S.nftOwner
       /\ d.S.balances = g.S.balances

(* an approval has been accumulated through the signature path and the     *)
(* next one, through either path, attains the threshold of 2               *)
C20_Witness ==
  \E id \in EscrowIds, signer \in Users :
    /\ escrows[id].state = "BuyerDeposited"
    /\ ~IsExpired(id)
    /\ escrows[id].requiredSignatures.threshold = 2
    /\ last.op = "approveTransactionWithSignature"
    /\ last.msg = "ok"
    /\ last.id = id
    /\ approveTransaction(Cur, signer, id, "CompleteEscrow", "ok")
         .S.escrows[id].state = "Completed"
    /\ approveTransactionWithSignature(
         Cur, id, "CompleteEscrow", signer, userNonces[signer],
         ValidSignature(signer, id, "CompleteEscrow", userNonces[signer]),
         "ok").S.escrows[id].state = "Completed"

----------------------------------------------------------------------------
(* The legacy contract EscrowNFT (src/contracts/EscrowNFT.sol).  Its       *)
(* storage is an escrows mapping and an id counter; it is modelled in the  *)
(* variables escrows and escrowIdCounter, with the same ERC721 registry    *)
(* and ERC20 tokens; transactions, userNonces and now play no part in it.  *)

LegacyMaxEscrows == 2
LegacyEscrowIds == 1..LegacyMaxEscrows

EscrowNFT_EmptyEscrow ==
  [seller |-> ZERO, nftContract |-> ZERO, tokenId |-> 0, paymentToken |-> ZERO,
   price |-> 0, buyer |-> ZERO, state |-> "Created",
   sellerSigned |-> FALSE, buyerSigned |-> FALSE]

EscrowNFT_completeEscrow(S, escrowId, tokRes) ==
  LET escrow == S.escrows[escrowId]
      n == nftTransferFrom(S, THIS, escrow.buyer, escrow.tokenId, TRUE)
  IN IF n.status = "revert" THEN Revert(S, "ERC721 transfer reverted")
     ELSE LET p == erc20Transfer(n.S, escrow.paymentToken, THIS,
                                 escrow.seller, escrow.price, tokRes)
          IN IF p.status = "revert" THEN Revert(S, "ERC20 transfer reverted")
             ELSE Return([p.S EXCEPT !.escrows[escrowId].state = "Completed"],
                         "ok")

EscrowNFT_cancelEscrow(S, escrowId, tokRes) ==
  LET escrow == S.escrows[escrowId]
      n == nftTransferFrom(S, THIS, escrow.seller, escrow.tokenId, TRUE)
  IN IF n.status = "revert" THEN Revert(S, "ERC721 transfer reverted")
     ELSE LET p == IF escrow.state = "BuyerDeposited"
                   THEN erc20Transfer(n.S, escrow.paymentToken, THIS,
                                      escrow.buyer, escrow.price, tokRes)
                   ELSE [S |-> n.S, status |-> "true"]
          IN IF p.status = "revert" THEN Revert(S, "ERC20 transfer reverted")
             ELSE Return([p.S EXCEPT !.escrows[escrowId].state = "Cancelled"],
                         "cancelled")

EscrowNFT_createEscrow(S, sender, nftContract, tokenId, paymentToken, price, approved) ==
  LET escrowId == S.escrowIdCounter + 1
      token == IF paymentToken = ZERO THEN DEFAULT_PAYMENT_TOKEN
               ELSE paymentToken
      S1 == [S EXCEPT !.escrowIdCounter = escrowId,
                      !.escrows[escrowId] =
                        [seller |-> sender, nftContract |-> nftContract,
                         tokenId |-> tokenId, paymentToken |-> token,
                         price |-> price, buyer |-> ZERO, state |-> "Created",
                         sellerSigned |-> FALSE, buyerSigned |-> FALSE]]
  IN IF nftContract = ZERO THEN Revert(S, "Invalid NFT contract address")
     ELSE IF ~(price > 0) THEN Revert(S, "Price must be greater than zero")
     ELSE IF S.nftOwner[tokenId] # sender
       THEN Revert(S, "Caller must own the NFT")
     ELSE LET n == nftTransferFrom(S1, sender, THIS, tokenId, approved)
          IN IF n.status = "revert" THEN Revert(S, "ERC721 transfer reverted")
             ELSE Return(n.S, "ok")

EscrowNFT_assignAsBuyer(S, sender, escrowId) ==
  LET escrow == S.escrows[escrowId]
  IN IF escrow.seller = ZERO THEN Revert(S, "Escrow does not exist")
     ELSE IF escrow.state # "Created"
       THEN Revert(S, "Escrow not in Created state")
     ELSE IF escrow.seller = sender THEN Revert(S, "Seller cannot be buyer")
     ELSE IF escrow.buyer # ZERO THEN Revert(S, "Buyer already assigned")
     ELSE Return([S EXCEPT !.escrows[escrowId].buyer = sender], "ok")

EscrowNFT_depositPayment(S, sender, escrowId, tokRes) ==
  LET escrow == S.escrows[escrowId]
  IN IF escrow.seller = ZERO THEN Revert(S, "Escrow does not exist")
     ELSE IF escrow.state # "Created"
       THEN Revert(S, "Escrow not in Created state")
     ELSE IF escrow.buyer # sender
       THEN Revert(S, "Only assigned buyer can deposit")
     ELSE LET p == erc20Transfer(S, escrow.paymentToken, sender, THIS,
                                 escrow.price, tokRes)
          IN IF p.status = "revert" THEN Revert(S, "ERC20 transfer reverted")
             ELSE IF p.status # "true" THEN Revert(S, "Token transfer failed")
             ELSE Return([p.S EXCEPT !.escrows[escrowId].state =
                                       "BuyerDeposited"], "ok")

EscrowNFT_signEscrow(S, sender, escrowId, accept, tokRes) ==
  LET escrow == S.escrows[escrowId]
      S1 == IF sender = escrow.seller
            THEN [S EXCEPT !.escrows[escrowId].sellerSigned = TRUE]
            ELSE [S EXCEPT !.escrows[escrowId].buyerSigned = TRUE]
  IN IF escrow.seller = ZERO THEN Revert(S, "Escrow does not exist")
     ELSE IF escrow.state # "BuyerDeposited"
       THEN Revert(S, "Buyer must deposit first")
     ELSE IF ~(sender = escrow.seller \/ sender = escrow.buyer)
       THEN Revert(S, "Not a party to this escrow")
     ELSE IF ~accept
       THEN LET c == EscrowNFT_cancelEscrow(S, escrowId, tokRes)
            IN IF c.reverted THEN Revert(S, c.msg) ELSE c
     ELSE IF S1.escrows[escrowId].sellerSigned
             /\ S1.escrows[escrowId].buyerSigned
       THEN LET x == EscrowNFT_completeEscrow(S1, escrowId, tokRes)
            IN IF x.reverted THEN Revert(S, x.msg) ELSE x
     ELSE Return(S1, "ok")

EscrowNFT_adminCancelEscrow(S, sender, escrowId, tokRes) ==
  LET escrow == S.escrows[escrowId]
  IN IF sender # ContractOwner THEN Revert(S, "OwnableUnauthorizedAccount")
     ELSE IF escrow.seller = ZERO THEN Revert(S, "Escrow does not exist")
     ELSE IF ~(escrow.state # "Completed" /\ escrow.state # "Cancelled")
       THEN Revert(S, "Escrow already completed or cancelled")
     ELSE LET c == EscrowNFT_cancelEscrow(S, escrowId, tokRes)
          IN IF c.reverted THEN Revert(S, c.msg) ELSE c

(* The state machine of EscrowNFT.  last records the most recent call     *)
(* that returned: txType holds "accept" or "reject" for signEscrow.       *)
LegacyInit ==
  /\ escrows = [i \in LegacyEscrowIds |-> EscrowNFT_EmptyEscrow]
  /\ escrowIdCounter = 0
  /\ transactions = [h \in TxHashes |-> EmptyTransaction]
  /\ userNonces = [u \in Users |-> 0]
  /\ nftOwner = [t \in TokenIds |-> "u1"]
  /\ balances = [k \in PaymentTokens |-> [h \in Holders |->
                                            IF h = THIS THEN 0 ELSE 1]]
  /\ now = 1
  /\ last = NoCall

LegacyCreateEscrow ==
  /\ escrowIdCounter < LegacyMaxEscrows
  /\ \E sender \in Users, nftContract \in NftContractInputs,
        tokenId \in TokenIds, paymentToken \in PaymentTokenInputs,
        price \in PriceInputs, approved \in {TRUE} :
       Apply(EscrowNFT_createEscrow(Cur, sender, nftContract, tokenId,
                                    paymentToken, price, approved),
             "createEscrow", escrowIdCounter + 1, "none", sender, 0)

LegacyAssignAsBuyer ==
  /\ \E sender \in Users, escrowId \in LegacyEscrowIds :
       Apply(EscrowNFT_assignAsBuyer(Cur, sender, escrowId),
             "assignAsBuyer", escrowId, "none", sender, 0)

LegacyDepositPayment ==
  /\ \E sender \in Users, escrowId \in LegacyEscrowIds,
        tokRes \in TokenResults :
       Apply(EscrowNFT_depositPayment(Cur, sender, escrowId, tokRes),
             "depositPayment", escrowId, "none", sender, 0)

LegacySignEscrow ==
  /\ \E sender \in Users, escrowId \in LegacyEscrowIds, accept \in BOOLEAN,
        tokRes \in TokenResults :
       Apply(EscrowNFT_signEscrow(Cur, sender, escrowId, accept, tokRes),
             "signEscrow", escrowId, IF accept THEN "accept" ELSE "reject",
             sender, 0)

LegacyAdminCancelEscrow ==
  /\ \E sender \in Users, escrowId \in LegacyEscrowIds,
        tokRes \in TokenResults :
       Apply(EscrowNFT_adminCancelEscrow(Cur, sender, escrowId, tokRes),
             "adminCancelEscrow", escrowId, "none", sender, 0)

LegacyNext ==
  \/ LegacyCreateEscrow
  \/ LegacyAssignAsBuyer
  \/ LegacyDepositPayment
  \/ LegacySignEscrow
  \/ LegacyAdminCancelEscrow

LegacySpec == LegacyInit /\ [][LegacyNext]_vars

----------------------------------------------------------------------------
(* C21: an EscrowNFT escrow is Completed only when both its seller and its *)
(* buyer have accepted through signEscrow while it was BuyerDeposited; the *)
(* call that supplies the second acceptance settles it, with the NFT at    *)
(* the buyer and price paid to the seller; acceptances by one party alone, *)
(* however many, never complete it; Accepted is never reached.             *)
C21_BothSigned ==
  \A id \in LegacyEscrowIds :
    /\ escrows[id].state # "Accepted"
    /\ escrows[id].state = "Completed" =>
         (escrows[id].sellerSigned /\ escrows[id].buyerSigned)
    /\ escrows[id].state = "BuyerDeposited" =>
         ~(escrows[id].sellerSigned /\ escrows[id].buyerSigned)

C21_SignCalls ==
  \A id \in LegacyEscrowIds :
    (Exists(id) /\ escrows[id].state = "BuyerDeposited") =>
      \A sender \in {escrows[id].seller, escrows[id].buyer},
         tokRes \in TokenResults :
        LET e == escrows[id]
            r == EscrowNFT_signEscrow(Cur, sender, id, TRUE, tokRes)
            otherSigned == IF sender = e.seller THEN e.buyerSigned
                           ELSE e.sellerSigned
        IN ~r.reverted =>
             IF otherSigned
             THEN /\ r.S.escrows[id].state = "Completed"
                  /\ r.S.nftOwner[e.tokenId] = e.buyer
                  /\ r.S.balances[e.paymentToken][e.seller]
                       = balances[e.paymentToken][e.seller] + e.price
                  /\ r.S.balances[e.paymentToken][THIS]
                       = balances[e.paymentToken][THIS] - e.price
             ELSE /\ r.S.escrows[id].state = "BuyerDeposited"
                  /\ r.S.nftOwner = nftOwner
                  /\ r.S.balances = balances

C21_CompleteStep ==
  \A id \in LegacyEscrowIds :
    (escrows[id].state # "Completed" /\ escrows'[id].state = "Completed") =>
      /\ escrows[id].state = "BuyerDeposited"
      /\ last'.op = "signEscrow"
      /\ last'.txType = "accept"
      /\ last'.id = id
      /\ last'.signer \in {escrows[id].seller, escrows[id].buyer}
      /\ IF last'.signer = escrows[id].seller
         THEN escrows[id].buyerSigned /\ ~escrows[id].sellerSigned
         ELSE escrows[id].sellerSigned /\ ~escrows[id].buyerSigned

C21_TwoPartySettlement ==
  [](C21_BothSigned /\ C21_SignCalls) /\ [][C21_CompleteStep]_vars

C21_SignCallsButPayment ==
  \A id \in LegacyEscrowIds :
    (Exists(id) /\ escrows[id].state = "BuyerDeposited") =>
      \A sender \in {escrows[id].seller, escrows[id].buyer},
         tokRes \in TokenResults :
        LET e == escrows[id]
            r == EscrowNFT_signEscrow(Cur, sender, id, TRUE, tokRes)
            otherSigned == IF sender = e.seller THEN e.buyerSigned
                           ELSE e.sellerSigned
        IN ~r.reverted =>
             IF otherSigned
             THEN /\ r.S.escrows[id].state = "Completed"
                  /\ r.S.nftOwner[e.tokenId] = e.buyer
             ELSE /\ r.S.escrows[id].state = "BuyerDeposited"
                  /\ r.S.nftOwner = nftOwner
                  /\ r.S.balances = balances

(* C21 without the payment to the seller: the two-party rule alone *)
C21_TwoPartyRule ==
  [](C21_BothSigned /\ C21_SignCallsButPayment) /\ [][C21_CompleteStep]_vars

----------------------------------------------------------------------------
(* C22: signEscrow(accept = false) by the seller or the buyer of a         *)
(* BuyerDeposited EscrowNFT escrow cancels it in that call, whatever       *)
(* acceptance was recorded before, with the NFT back at the seller and the *)
(* full price back at the buyer; on the cancelled escrow every signEscrow, *)
(* depositPayment and adminCancelEscrow call reverts.                      *)
C22_Rejects(refund) ==
  \A id \in LegacyEscrowIds :
    (Exists(id) /\ escrows[id].state = "BuyerDeposited") =>
      \A sender \in {escrows[id].seller, escrows[id].buyer},
         tokRes \in TokenResults :
        LET e == escrows[id]
            r == EscrowNFT_signEscrow(Cur, sender, id, FALSE, tokRes)
        IN /\ tokRes = "ok" => ~r.reverted
           /\ ~r.reverted =>
                /\ r.S.escrows[id].state = "Cancelled"
                /\ r.S.nftOwner[e.tokenId] = e.seller
                /\ refund =>
                     /\ r.S.balances[e.paymentToken][e.buyer]
                          = balances[e.paymentToken][e.buyer] + e.price
                     /\ r.S.balances[e.paymentToken][THIS]
                          = balances[e.paymentToken][THIS] - e.price

C22_CancelledIsFinal ==
  \A id \in LegacyEscrowIds :
    (Exists(id) /\ escrows[id].state = "Cancelled") =>
      \A sender \in Users, tokRes \in TokenResults :
        /\ \A accept \in BOOLEAN :
             EscrowNFT_signEscrow(Cur, sender, id, accept, tokRes).reverted
        /\ EscrowNFT_depositPayment(Cur, sender, id, tokRes).reverted
        /\ EscrowNFT_adminCancelEscrow(Cur, sender, id, tokRes).reverted

C22_RefundOnRejection == C22_Rejects(TRUE) /\ C22_CancelledIsFinal

(* C22 without the refund of the price: cancellation and finality alone *)
C22_CancelOnRejection == C22_Rejects(FALSE) /\ C22_CancelledIsFinal

----------------------------------------------------------------------------
(* C23: on an escrow with an expiration, once now > expirationTime every   *)
(* assignAsBuyer, assignArbiter and depositPayment call reverts and no     *)
(* approval call, direct or signed, records an approval or completes the   *)
(* escrow; no escrow becomes BuyerDeposited or Completed after its         *)
(* expiration; at now = expirationTime the operations are still accepted.  *)
C23_NoProgress(r, id) ==
  /\ r.S.transactions = transactions
  /\ r.S.escrows[id].state \in {escrows[id].state, "Cancelled"}
  /\ r.S.escrows[id].buyer = escrows[id].buyer
  /\ r.S.escrows[id].arbiter = escrows[id].arbiter

C23_ExpiredRejects ==
  \A id \in EscrowIds :
    (Exists(id) /\ IsExpired(id)) =>
      \A sender \in Users, tokRes \in TokenResults :
        /\ assignAsBuyer(Cur, sender, id).reverted
        /\ \A a \in Users \cup {ZERO} :
             assignArbiter(Cur, sender, id, a).reverted
        /\ depositPayment(Cur, sender, id, tokRes).reverted
        /\ \A txType \in TransactionType :
             /\ C23_NoProgress(approveTransaction(Cur, sender, id, txType,
                                                  tokRes), id)
             /\ \A nonce \in Nonces, by \in Users :
                  C23_NoProgress(approveTransactionWithSignature(
                                   Cur, id, txType, sender, nonce,
                                   ValidSignature(by, id, txType, nonce),
                                   tokRes), id)

C23_AtDeadlineAccepted ==
  \A id \in EscrowIds :
    (Exists(id) /\ escrows[id].expirationTime # 0
       /\ now = escrows[id].expirationTime) =>
      LET e == escrows[id]
      IN /\ (e.state = "Created" /\ e.buyer = ZERO) =>
              \A u \in Users \ {e.seller} : ~assignAsBuyer(Cur, u, id).reverted
         /\ (e.state = "Created" /\ e.buyer # ZERO
               /\ balances[e.paymentToken][e.buyer] >= e.price) =>
              ~depositPayment(Cur, e.buyer, id, "ok").reverted
         /\ (e.state \in {"Created", "BuyerDeposited"} /\ e.arbiter = ZERO) =>
              \A a \in Users \ {e.seller, e.buyer} :
                ~assignArbiter(Cur, e.seller, id, a).reverted
         /\ e.state = "BuyerDeposited" =>
              \A u \in Users, txType \in TransactionType :
                C18_Eligible(e, u) =>
                  LET d == approveTransaction(Cur, u, id, txType, "ok")
                      g == approveTransactionWithSignature(
                             Cur, id, txType, u, userNonces[u],
                             ValidSignature(u, id, txType, userNonces[u]),
                             "ok")
                  IN /\ ~d.reverted /\ d.msg = "ok"
                     /\ u \in d.S.transactions[<<id, txType, userNonces[u]>>]
                                .approvals
                     /\ ~g.reverted /\ g.msg = "ok"
                     /\ u \in g.S.transactions[<<id, txType, userNonces[u]>>]
                                .approvals

C23_ProgressStep ==
  \A id \in EscrowIds :
    (/\ escrows'[id].state \in {"BuyerDeposited", "Completed"}
     /\ escrows'[id].state # escrows[id].state) =>
      ~(escrows[id].expirationTime # 0 /\ now' > escrows[id].expirationTime)

C23_ExpiredNoProgress ==
  [](C23_ExpiredRejects /\ C23_AtDeadlineAccepted) /\ [][C23_ProgressStep]_vars

(* an escrow that took its deposit and an approval at the deadline and has *)
(* expired since, not yet cancelled                                        *)
C23_Witness ==
  \E id \in EscrowIds :
    /\ IsExpired(id)
    /\ escrows[id].state = "BuyerDeposited"
    /\ ApproversOf(id, "CompleteEscrow") # {}
    /\ approveTransaction(Cur, escrows[id].seller, id, "CompleteEscrow",
                          "ok").S.escrows[id].state = "Cancelled"

----------------------------------------------------------------------------
(* C24, as amended: a signature made by S over (escrow e, action a,        *)
(* nonce n) makes approveTransactionWithSignature record an approval only  *)
(* in a call naming exactly e, a, S and n; presented for another escrow,   *)
(* the other action, another claimed signer or another nonce it records no *)
(* approval and consumes no nonce: the call reverts, or, on a              *)
(* BuyerDeposited escrow that has expired, takes the expiry branch and     *)
(* cancels the escrow.                                                     *)
(* The signatures presented in a call claiming `signer': made by the       *)
(* claimed signer or by another key, over any escrow (one more than        *)
(* exist), action and nonce.                                               *)
C24_Signatures(signer) ==
  [by : {signer, OtherUser(signer)},
   digest : (1..(MaxEscrows + 1)) \X TransactionType \X Nonces]

C24_Mismatch(signature, id, txType, signer, nonce) ==
  signature # ValidSignature(signer, id, txType, nonce)

C24_NotRecorded(r, id) ==
  /\ r.S.transactions = transactions
  /\ r.S.userNonces = userNonces
  /\ \/ r.reverted /\ r.S = Cur
     \/ /\ escrows[id].state = "BuyerDeposited"
        /\ IsExpired(id)
        /\ ~r.reverted
        /\ r.msg = "Escrow expired"
        /\ r.S.escrows[id].state = "Cancelled"

C24_Live(id) == Exists(id) /\ escrows[id].state = "BuyerDeposited"

C24_BindingOnLive ==
  \A id \in EscrowIds :
    C24_Live(id) =>
      \A txType \in TransactionType, signer \in Users, nonce \in Nonces,
         tokRes \in TokenResults :
       \A signature \in C24_Signatures(signer) :
        LET r == approveTransactionWithSignature(Cur, id, txType, signer,
                                                 nonce, signature, tokRes)
        IN /\ C24_Mismatch(signature, id, txType, signer, nonce) =>
                C24_NotRecorded(r, id)
           /\ (~r.reverted /\ r.msg = "ok") =>
                /\ signature.by = signer
                /\ signature.digest = <<id, txType, nonce>>

(* off BuyerDeposited no transfer is at stake: the call is made with the   *)
(* signer's stored nonce and with the nonce the signature was made over    *)
C24_BindingOffLive ==
  \A id \in EscrowIds :
    ~C24_Live(id) =>
      \A txType \in TransactionType, signer \in Users :
       \A signature \in C24_Signatures(signer) :
        \A nonce \in {userNonces[signer], signature.digest[3]} :
          LET r == approveTransactionWithSignature(Cur, id, txType, signer,
                                                   nonce, signature, "ok")
          IN r.reverted /\ r.S = Cur

----------------------------------------------------------------------------
(* C25: whenever an approval record of an escrow has approvalCount at or   *)
(* above the escrow's threshold, the escrow is Completed or Cancelled and  *)
(* the contract holds neither its asset nor its payment any more; every    *)
(* approval record of a BuyerDeposited escrow has approvalCount below the  *)
(* threshold.                                                              *)
C25_Reached(id) ==
  \E txType \in TransactionType, n \in Nonces :
    transactions[<<id, txType, n>>].approvalCount
      >= escrows[id].requiredSignatures.threshold

C25_BelowWhileDeposited ==
  \A id \in EscrowIds :
    (Exists(id) /\ escrows[id].state = "BuyerDeposited") => ~C25_Reached(id)

C25_ReachedMeansReleased ==
  \A id \in EscrowIds :
    (Exists(id) /\ C25_Reached(id)) =>
      /\ Terminal(escrows[id].state)
      /\ ~C13_AssetHeldFor(id)
      /\ balances[escrows[id].paymentToken][THIS]
           = C13_SumPrices(C13_Deposited(escrows[id].paymentToken))

C25_ApprovalsNotUsedUp == C25_ReachedMeansReleased /\ C25_BelowWhileDeposited

----------------------------------------------------------------------------
(* C26: in every approval record, the record filed under nonce 0 included, *)
(* approvalCount is the number of signers marked as approved in it, and an *)
(* approval by a new signer never lowers the count of a record.            *)
C26_CountIsSetSize ==
  \A h \in TxHashes :
    transactions[h].approvalCount = Cardinality(transactions[h].approvals)

C26_CountStep ==
  \A h \in TxHashes :
    transactions'[h].approvals # transactions[h].approvals =>
      transactions'[h].approvalCount >= transactions[h].approvalCount + 1

C26_CountMatchesApprovedSet == []C26_CountIsSetSize /\ [][C26_CountStep]_vars

----------------------------------------------------------------------------
(* C27: on an escrow with threshold >= 2 that has not expired, approvals   *)
(* submitted for one single address, directly or by signature, for either  *)
(* action, however many, and even when the address holds two roles, leave  *)
(* the escrow BuyerDeposited; an approval step that resolves an escrow     *)
(* leaves at least threshold distinct addresses in the deciding record.    *)
C27_OnlyApprover(id, u) ==
  ApproversOf(id, "CompleteEscrow") \cup ApproversOf(id, "CancelEscrow")
    \subseteq {u}

C27_AloneStaysDeposited ==
  \A id \in EscrowIds, u \in Users :
    (/\ Exists(id)
     /\ escrows[id].state = "BuyerDeposited"
     /\ ~IsExpired(id)
     /\ escrows[id].requiredSignatures.threshold >= 2
     /\ C27_OnlyApprover(id, u)) =>
      \A txType \in TransactionType, tokRes \in TokenResults :
        LET d == approveTransaction(Cur, u, id, txType, tokRes)
            g == approveTransactionWithSignature(
                   Cur, id, txType, u, userNonces[u],
                   ValidSignature(u, id, txType, userNonces[u]), tokRes)
        IN /\ d.S.escrows[id].state = "BuyerDeposited"
           /\ g.S.escrows[id].state = "BuyerDeposited"
           /\ d.S.nftOwner = nftOwner /\ d.S.balances = balances
           /\ g.S.nftOwner = nftOwner /\ g.S.balances = balances

C27_ResolvingStep ==
  \A id \in EscrowIds :
    (/\ escrows[id].state = "BuyerDeposited"
     /\ Terminal(escrows'[id].state)
     /\ last'.op \in {"approveTransaction", "approveTransactionWithSignature"}
     /\ last'.msg = "ok") =>
      Cardinality(transactions'[<<id, last'.txType, last'.nonce>>].approvals)
        >= escrows[id].requiredSignatures.threshold

C27_NoUnilateralResolution ==
  []C27_AloneStaysDeposited /\ [][C27_ResolvingStep]_vars

(* one address holding the roles of buyer and arbiter has approved both    *)
(* actions, twice in all, and the threshold-2 escrow is still deposited    *)
C27_Witness ==
  \E id \in EscrowIds, u \in Users :
    /\ escrows[id].state = "BuyerDeposited"
    /\ ~IsExpired(id)
    /\ escrows[id].requiredSignatures.threshold >= 2
    /\ escrows[id].buyer = u
    /\ escrows[id].arbiter = u
    /\ ApproversOf(id, "CompleteEscrow") = {u}
    /\ ApproversOf(id, "CancelEscrow") = {u}
    /\ userNonces[u] = 2

----------------------------------------------------------------------------
(* SignatureEscrow with several escrows and several assets: the same       *)
(* functions over wider mappings.  Escrows are created with buyer and      *)
(* seller eligible, no arbiter and no deadline; the holder of an asset may *)
(* hand it to another address in the registry.                             *)

MultiMaxEscrows == 2

MultiEscrowIds == 1..MultiMaxEscrows
MultiTokenIds == {1, 2}
MultiTxHashes == MultiEscrowIds \X TransactionType \X Nonces
MultiThresholdInputs == {1}
MultiRecipients == {"u1", "u2"}

MultiInit ==
  /\ escrows = [i \in MultiEscrowIds |-> EmptyEscrow]
  /\ escrowIdCounter = 0
  /\ transactions = [h \in MultiTxHashes |-> EmptyTransaction]
  /\ userNonces = [u \in Users |-> 0]
  /\ nftOwner = [t \in MultiTokenIds |-> IF t = 1 THEN "u1" ELSE "u2"]
  /\ balances = [k \in PaymentTokens |-> [h \in Holders |->
                                            IF h = THIS THEN 0 ELSE 1]]
  /\ now = 1
  /\ last = NoCall

(* The effect of a call with result r; the properties of this              *)
(* specification do not look at the most recent call, so last keeps its    *)
(* initial value.                                                          *)
MultiApply(r, op, id) ==
  /\ escrows' = r.S.escrows
  /\ escrowIdCounter' = r.S.escrowIdCounter
  /\ transactions' = r.S.transactions
  /\ userNonces' = r.S.userNonces
  /\ nftOwner' = r.S.nftOwner
  /\ balances' = r.S.balances
  /\ UNCHANGED <<now, last>>

MultiCreateEscrow ==
  /\ escrowIdCounter < MultiMaxEscrows
  /\ \E sender \in Users, tokenId \in MultiTokenIds,
        threshold \in MultiThresholdInputs :
       MultiApply(createEscrow(Cur, sender, NFT, tokenId, ZERO, 1, ZERO, TRUE,
                               TRUE, FALSE, threshold, 0, TRUE),
                  "createEscrow", escrowIdCounter + 1)

MultiAssignAsBuyer ==
  /\ \E sender \in Users, escrowId \in MultiEscrowIds :
       MultiApply(assignAsBuyer(Cur, sender, escrowId), "assignAsBuyer",
                  escrowId)

MultiDepositPayment ==
  /\ \E sender \in Users, escrowId \in MultiEscrowIds, tokRes \in TokenResults :
       MultiApply(depositPayment(Cur, sender, escrowId, tokRes),
                  "depositPayment", escrowId)

MultiApproveTransaction ==
  /\ \E sender \in Users, escrowId \in MultiEscrowIds,
        txType \in TransactionType, tokRes \in TokenResults :
       /\ userNonces[sender] < MaxNonce
       /\ MultiApply(approveTransaction(Cur, sender, escrowId, txType, tokRes),
                     "approveTransaction", escrowId)

MultiApproveTransactionWithSignature ==
  /\ \E escrowId \in MultiEscrowIds, txType \in TransactionType,
        signer \in Users, tokRes \in TokenResults :
       /\ userNonces[signer] < MaxNonce
       /\ MultiApply(approveTransactionWithSignature(
                       Cur, escrowId, txType, signer, userNonces[signer],
                       ValidSignature(signer, escrowId, txType,
                                      userNonces[signer]),
                       tokRes),
                     "approveTransactionWithSignature", escrowId)

MultiAdminCancelEscrow ==
  /\ \E sender \in Users, escrowId \in MultiEscrowIds, tokRes \in TokenResults :
       MultiApply(adminCancelEscrow(Cur, sender, escrowId, tokRes),
                  "adminCancelEscrow", escrowId)

(* IERC721.transferFrom called by the holder of an asset: the registry     *)
(* changes ownership only through a transfer by the current owner.  It is  *)
(* no call of the contract, so last keeps its value.                       *)
OwnerTransfer ==
  /\ \E tokenId \in MultiTokenIds, to \in MultiRecipients :
       /\ nftOwner[tokenId] \in Users
       /\ to # nftOwner[tokenId]
       /\ nftOwner' = [nftOwner EXCEPT ![tokenId] = to]
       /\ UNCHANGED <<escrows, escrowIdCounter, transactions, userNonces,
                      balances, now, last>>

MultiNext ==
  \/ MultiCreateEscrow
  \/ MultiAssignAsBuyer
  \/ MultiDepositPayment
  \/ MultiApproveTransaction
  \/ MultiApproveTransactionWithSignature
  \/ MultiAdminCancelEscrow
  \/ OwnerTransfer

MultiSpec == MultiInit /\ [][MultiNext]_vars

----------------------------------------------------------------------------
(* C28: at most one escrow in Created or BuyerDeposited references a given *)
(* (nftContract, tokenId); createEscrow for an asset held in such an       *)
(* escrow always fails; a new escrow for an asset is created only after    *)
(* every earlier escrow for it is Completed or Cancelled.                  *)
C28_Live(id) ==
  Exists(id) /\ escrows[id].state \in {"Created", "BuyerDeposited"}

C28_SameAsset(i, j) ==
  /\ escrows[i].nftContract = escrows[j].nftContract
  /\ escrows[i].tokenId = escrows[j].tokenId

C28_OneLive ==
  \A i \in MultiEscrowIds, j \in MultiEscrowIds :
    (i # j /\ C28_Live(i) /\ C28_Live(j)) => ~C28_SameAsset(i, j)

C28_CreateFails ==
  \A id \in MultiEscrowIds :
    C28_Live(id) =>
      \A sender \in Users, paymentToken \in PaymentTokenInputs,
         price \in PriceInputs, arbiter \in ArbiterInputs,
         requireBuyer \in BOOLEAN, requireSeller \in BOOLEAN,
         requireArbiter \in BOOLEAN, threshold \in ThresholdInputs,
         expirationTime \in ExpirationInputs, approved \in BOOLEAN :
        createEscrow(Cur, sender, escrows[id].nftContract, escrows[id].tokenId,
                     paymentToken, price, arbiter, requireBuyer,
                     requireSeller, requireArbiter, threshold, expirationTime,
                     approved).reverted

C28_CreateStep ==
  \A j \in MultiEscrowIds :
    (~Exists(j) /\ escrows'[j].seller # ZERO) =>
      \A i \in MultiEscrowIds \ {j} :
        (Exists(i) /\ escrows[i].nftContract = escrows'[j].nftContract
                   /\ escrows[i].tokenId = escrows'[j].tokenId) =>
          Terminal(escrows[i].state) /\ Terminal(escrows'[i].state)

C28_OneLiveEscrowPerAsset ==
  [](C28_OneLive /\ C28_CreateFails) /\ [][C28_CreateStep]_vars

(* a second escrow has just been created for the asset of a resolved one,  *)
(* and a further createEscrow for that asset is refused                    *)
C28_Witness ==
  \E i \in MultiEscrowIds, j \in MultiEscrowIds :
    /\ i # j
    /\ Exists(i) /\ Terminal(escrows[i].state)
    /\ C28_Live(j)
    /\ C28_SameAsset(i, j)
    /\ escrows[j].state = "Created" /\ escrows[j].buyer = ZERO
    /\ \A sender \in Users :
         createEscrow(Cur, sender, escrows[j].nftContract, escrows[j].tokenId,
                      ZERO, 1, ZERO, TRUE, TRUE, FALSE, 1, 0, TRUE).reverted

----------------------------------------------------------------------------
(* C29: for every payment token, what the contract holds equals the sum of *)
(* price over the BuyerDeposited escrows paid in that token; completing or *)
(* cancelling one escrow never pays out what was deposited for another.    *)
C29_Deposited(tok) ==
  {id \in MultiEscrowIds : /\ Exists(id)
                           /\ escrows[id].paymentToken = tok
                           /\ escrows[id].state = "BuyerDeposited"}

C29_Held ==
  \A tok \in PaymentTokens :
    balances[tok][THIS] = C13_SumPrices(C29_Deposited(tok))

(* the escrows of a token that leave BuyerDeposited in the step *)
C29_Leaving(tok) ==
  {id \in C29_Deposited(tok) : escrows'[id].state # "BuyerDeposited"}

C29_PayoutStep ==
  \A tok \in PaymentTokens :
    balances'[tok][THIS] >= balances[tok][THIS]
                              - C13_SumPrices(C29_Leaving(tok))

C29_PaymentConservation == []C29_Held /\ [][C29_PayoutStep]_vars

(* What holds whatever the token does: the contract holds at least the sum *)
(* of the deposits of the BuyerDeposited escrows, and a step pays out at   *)
(* most the price of the escrows it resolves.                              *)
C29_Covered ==
  \A tok \in PaymentTokens :
    balances[tok][THIS] >= C13_SumPrices(C29_Deposited(tok))

C29_NoCrossPayout == []C29_Covered /\ [][C29_PayoutStep]_vars

(* two escrows hold a deposit at the same time *)
C29_TwoDeposits ==
  \E tok \in PaymentTokens :
    Cardinality(C29_Deposited(tok)) = 2 /\ balances[tok][THIS] = 2

----------------------------------------------------------------------------
(* C30: assignArbiter succeeds only when the seller calls it on a          *)
(* non-expired Created or BuyerDeposited escrow that has no arbiter, with  *)
(* an arbiter other than seller and buyer; such an escrow never has the    *)
(* arbiter role eligible; and an arbiter assigned after creation is never  *)
(* accepted as an approver of any action of the escrow.                    *)
C30_AssignGuard ==
  \A id \in EscrowIds, sender \in Users, arbiter \in Users \cup {ZERO} :
    LET e == escrows[id]
        r == assignArbiter(Cur, sender, id, arbiter)
    IN ~r.reverted <=>
         /\ Exists(id)
         /\ e.state \in {"Created", "BuyerDeposited"}
         /\ ~IsExpired(id)
         /\ sender = e.seller
         /\ e.arbiter = ZERO
         /\ arbiter \notin {ZERO, e.seller, e.buyer}

C30_AssignStep ==
  \A id \in EscrowIds :
    (Exists(id) /\ escrows'[id].arbiter # escrows[id].arbiter) =>
      /\ last'.op = "assignArbiter" /\ last'.id = id
      /\ last'.signer = escrows[id].seller
      /\ escrows[id].arbiter = ZERO
      /\ ~escrows[id].requiredSignatures.requireArbiter
      /\ escrows' = [escrows EXCEPT ![id].arbiter = escrows'[id].arbiter]

C30_CreatedWithArbiter ==
  \A id \in EscrowIds :
    (Exists(id) /\ escrows[id].requiredSignatures.requireArbiter) =>
      escrows[id].arbiter # ZERO

(* some approval submitted for u on the escrow is accepted as an approval  *)
(* in contract state S                                                     *)
C30_AcceptedIn(S, id, u) ==
  \E txType \in TransactionType, tokRes \in TokenResults :
    LET d == approveTransaction(S, u, id, txType, tokRes)
        g == approveTransactionWithSignature(
               S, id, txType, u, S.userNonces[u],
               ValidSignature(u, id, txType, S.userNonces[u]), tokRes)
    IN \/ ~d.reverted /\ d.msg = "ok"
       \/ ~g.reverted /\ g.msg = "ok"

C30_Accepted(id, u) == C30_AcceptedIn(Cur, id, u)

C30_JustAssigned(id) == last.op = "assignArbiter" /\ last.id = id

(* the contract states that follow the present one when some address calls *)
(* assignAsBuyer and some address then calls depositPayment (a call that   *)
(* reverts changes nothing, so the present state is one of them)           *)
C30_Later(id) ==
  {depositPayment(assignAsBuyer(Cur, b, id).S, c, id, tokRes).S :
     b \in Users, c \in Users, tokRes \in TokenResults}

(* right after assignArbiter returned, and after the calls that take the   *)
(* escrow from there to BuyerDeposited, no approval of the new arbiter is  *)
(* accepted                                                                *)
C30_NeverAccepted ==
  \A id \in EscrowIds :
    C30_JustAssigned(id) =>
      \A S \in C30_Later(id) : ~C30_AcceptedIn(S, id, escrows[id].arbiter)

C30_LateArbiterHasNoPower ==
  /\ C30_AssignGuard
  /\ C30_CreatedWithArbiter
  /\ C30_NeverAccepted

(* What holds: the guards of assignArbiter, and an arbiter assigned after  *)
(* creation is accepted as an approver only while it is also the escrow's  *)
(* buyer with the buyer role eligible.                                     *)
C30_AcceptedOnlyAsBuyer ==
  \A id \in EscrowIds :
    (Exists(id) /\ ~escrows[id].requiredSignatures.requireArbiter) =>
      \A S \in C30_Later(id) :
        C30_AcceptedIn(S, id, escrows[id].arbiter) =>
          /\ escrows[id].arbiter = S.escrows[id].buyer
          /\ escrows[id].requiredSignatures.requireBuyer

C30_AssignArbiterGuards ==
  /\ [](C30_AssignGuard /\ C30_CreatedWithArbiter /\ C30_AcceptedOnlyAsBuyer)
  /\ [][C30_AssignStep]_vars

====
